---- MODULE Spec2Model ----
(***************************************************************************)
(* Model of the deduplication and location-relevance code of               *)
(* geo-alert-now (supabase/functions/process-alerts-centrally and the      *)
(* client hook use-central-alerts.tsx).                                    *)
(*                                                                         *)
(* A JavaScript string is modelled as the sequence of its UTF-16 code      *)
(* units (all characters used are in the Basic Multilingual Plane), so     *)
(* that trimming, case folding, the regular-expression classes, splitting  *)
(* and substring search are computed the way the code computes them.       *)
(* A similarity score is the exact fraction [n, d] the code divides; the   *)
(* comparisons with 0.85, 0.9 and 0.6 are done on the fraction (for the    *)
(* small token counts modelled the IEEE quotient compares the same way).   *)
(***************************************************************************)
EXTENDS Integers, Sequences, FiniteSets, TLC

VARIABLES
  items,            \* filterDuplicates: the batch handed in
  existingLinks,    \* filterDuplicates: links already stored
  existingTitles,   \* filterDuplicates: titles already stored
  rev,              \* which revision of filterDuplicates ran ("none": not yet)
  result,           \* the list filterDuplicates returned
  alertLocation,    \* isLocationRelevant: first argument
  userLocation,     \* isLocationRelevant: second argument
  impl,             \* which copy of isLocationRelevant ran ("none": not yet)
  relevant,         \* the boolean isLocationRelevant returned
  rawLocation,      \* normalizeLocation: the argument
  normImpl,         \* which copy of normalizeLocation ran ("none": not yet)
  normResult,       \* the string normalizeLocation returned
  text1,            \* similarity scorer: first argument
  text2,            \* similarity scorer: second argument
  scorer,           \* which scorer ran ("none": not yet)
  similarity,       \* the score it returned
  classItem,        \* classifyAlertWithAI: the RSS item handed in
  aiEnv,            \* classifyAlertWithAI: API key, HTTP outcome, AI response
  classifier,       \* which copy of classifyAlertWithAI ran ("none": not yet)
  outcome,          \* how its promise settled, and the alert it returned
  handler,          \* which revision of the serve handler runs ("none": none)
  pc,               \* where the handler is
  feeds,            \* the RSS sources and what fetching each one meets
  allItems,         \* the items collected from the feeds
  newItems,         \* the items left after deduplication
  classifyCalls,    \* the items handed to classifyAlertWithAI
  classifyEnv,      \* handler: how the AI answered during the run
  requestBody,      \* handler: the body of the request being served
  classifiedAlerts, \* the alerts kept after classification
  insertedAlerts,   \* the rows inserted into the alerts table
  pushEnv,          \* what sendPushNotifications meets ("none": not called)
  notified,         \* the send-notification invocations that succeeded
  response,         \* the handler's HTTP response
  pushAlerts,       \* sendPushNotifications: the alerts handed in
  pushWorld,        \* how the profiles query ends, and whose invocation throws
  pushCopy,         \* which copy of sendPushNotifications ran ("none": not yet)
  invocations,      \* the send-notification invocations made, in order
  clientBatch,      \* deduplicateAlerts: the alerts handed in
  uniqueAlerts,     \* deduplicateAlerts: the list returned
  dedupCalled,      \* deduplicateAlerts has run
  hookLocation,     \* useCentralAlerts: the location prop
  snoozeActive,     \* useCentralAlerts: the snoozeActive prop
  mounted,          \* useCentralAlerts: the effects have run once
  hookAlerts,       \* useCentralAlerts: the alerts state
  loading,          \* useCentralAlerts: the loading state
  hookError,        \* useCentralAlerts: the error state
  calls,            \* the refreshAlerts calls, in the order they started
  overlapped        \* a refresh started while another was in flight

dedupVars == <<items, existingLinks, existingTitles, rev, result>>
locVars == <<alertLocation, userLocation, impl, relevant>>
normVars == <<rawLocation, normImpl, normResult>>
simVars == <<text1, text2, scorer, similarity>>
vars == <<items, existingLinks, existingTitles, rev, result,
          alertLocation, userLocation, impl, relevant,
          rawLocation, normImpl, normResult, text1, text2, scorer, similarity,
          classItem, aiEnv, classifier, outcome,
          handler, pc, feeds, allItems, newItems, classifyCalls,
          classifyEnv, classifiedAlerts, insertedAlerts, pushEnv, notified,
          response, requestBody,
          pushAlerts, pushWorld, pushCopy, invocations,
          clientBatch, uniqueAlerts, dedupCalled,
          hookLocation, snoozeActive, mounted, hookAlerts, loading, hookError,
          calls, overlapped>>

classVars == <<classItem, aiEnv, classifier, outcome>>

\* A JavaScript value that is a string, null or undefined.
jsString(str) == [kind |-> "string", value |-> str]
jsNull == [kind |-> "null", value |-> <<>>]
jsUndefined == [kind |-> "undefined", value |-> <<>>]

\* RSSItem, types.ts:1-7 (guid is not read by the classifier).
rssItem(title, description, link, pubDate) ==
  [title |-> title, description |-> description, link |-> link,
   pubDate |-> pubDate]

\* Alert, types.ts:9-19, without id (a fresh UUID) and source (derived from
\* link alone).
makeAlert(title, description, location, timestamp, link, is_security_event) ==
  [title |-> title, description |-> description, location |-> location,
   timestamp |-> timestamp, link |-> link,
   is_security_event |-> is_security_event]

noItem == rssItem(<<>>, <<>>, "", "")
noAlert == makeAlert(<<>>, <<>>, jsUndefined, "", "", FALSE)

\* What the classifier meets: whether OPENAI_API_KEY is set, how the HTTP call
\* ends, how the response text is wrapped, and the JSON value inside it.
environment(apiKey, http, wrapper, json) ==
  [apiKey |-> apiKey, http |-> http, wrapper |-> wrapper, json |-> json]

\* The JSON text of the AI response: not JSON, the literal null, or an object
\* with its is_security_event and location members.
jsonInvalid ==
  [kind |-> "invalid", is_security_event |-> "missing", location |-> jsUndefined]
jsonNull ==
  [kind |-> "null", is_security_event |-> "missing", location |-> jsUndefined]
jsonObject(is_security_event, location) ==
  [kind |-> "object", is_security_event |-> is_security_event,
   location |-> location]

noEnv == environment(FALSE, "none", "plain", jsonInvalid)

\* A settled promise of classifyAlertWithAI.
fulfilled(alert) == [status |-> "fulfilled", value |-> alert]
rejected == [status |-> "rejected", value |-> noAlert]
pending == [status |-> "pending", value |-> noAlert]

\* classifyAlertWithAI not called.
ClassIdle ==
  /\ classItem = noItem
  /\ aiEnv = noEnv
  /\ classifier = "none"
  /\ outcome = pending

pushVars == <<pushAlerts, pushWorld, pushCopy, invocations>>

\* sendPushNotifications not called.
PushIdle ==
  /\ pushAlerts = <<>>
  /\ pushWorld = [users |-> "none", failing |-> {}]
  /\ pushCopy = "none"
  /\ invocations = <<>>

clientVars == <<clientBatch, uniqueAlerts, dedupCalled>>

\* deduplicateAlerts not called.
ClientIdle ==
  /\ clientBatch = <<>>
  /\ uniqueAlerts = <<>>
  /\ dedupCalled = FALSE

hookVars ==
  <<hookLocation, snoozeActive, mounted, hookAlerts, loading, hookError, calls,
    overlapped>>

\* useCentralAlerts not rendered.
HookIdle ==
  /\ hookLocation = <<>>
  /\ snoozeActive = FALSE
  /\ mounted = FALSE
  /\ hookAlerts = <<>>
  /\ loading = FALSE
  /\ hookError = "none"
  /\ calls = <<>>
  /\ overlapped = FALSE

handlerVars ==
  <<handler, pc, feeds, allItems, newItems, classifyCalls, classifyEnv,
    classifiedAlerts, insertedAlerts, pushEnv, notified, response,
    requestBody>>

\* new Response(JSON.stringify({success, message, processed}), {status}).
makeResponse(status, success, processed, message) ==
  [status |-> status, success |-> success, processed |-> processed,
   message |-> message]

noResponse == makeResponse(0, FALSE, 0, "")

\* How the profiles query ends, and how each send-notification invocation ends.
pushEnvironment(users, invoke) == [users |-> users, invoke |-> invoke]

noPush == pushEnvironment("none", "none")

\* No request is being handled.
HandlerIdle ==
  /\ handler = "none"
  /\ requestBody = "none"
  /\ pc = "idle"
  /\ feeds = <<>>
  /\ allItems = <<>>
  /\ newItems = <<>>
  /\ classifyCalls = <<>>
  /\ classifyEnv = noEnv
  /\ classifiedAlerts = <<>>
  /\ insertedAlerts = <<>>
  /\ pushEnv = noPush
  /\ notified = {}
  /\ response = noResponse

\* normalizeLocation not called.
NormIdle ==
  /\ rawLocation = <<>>
  /\ normImpl = "none"
  /\ normResult = <<>>

\* No scorer called.
SimIdle ==
  /\ text1 = <<>>
  /\ text2 = <<>>
  /\ scorer = "none"
  /\ similarity = [n |-> 0, d |-> 1]

(***************************************************************************)
(* JavaScript string primitives                                            *)
(***************************************************************************)

\* ECMAScript WhiteSpace and LineTerminator code units: the class \s and the
\* characters String.prototype.trim removes.
isWhitespace(c) ==
  \/ c \in {9, 10, 11, 12, 13, 32, 160, 5760, 8232, 8233, 8239, 8287, 12288, 65279}
  \/ c \in 8192..8202

\* The class \w: [A-Za-z0-9_].
isWordChar(c) ==
  \/ c \in 65..90
  \/ c \in 97..122
  \/ c \in 48..57
  \/ c = 95

\* The range ֐-׿ (Hebrew block).
isHebrew(c) == c \in 1424..1535

\* Cased letters among the characters modelled: A-Z, a-z and the Greek
\* capital and small letters.
isCased(c) ==
  \/ c \in 65..90
  \/ c \in 97..122
  \/ c \in 913..929
  \/ c \in 931..937
  \/ c \in 945..969

\* Case-ignorable characters among those modelled: ' . : ^ ` and the
\* zero-width no-break space U+FEFF (a format character that \s matches).
isCaseIgnorable(c) == c \in {39, 46, 58, 94, 96, 65279}

\* The Final_Sigma context of SpecialCasing.txt, which toLowerCase applies: a
\* cased letter stands before position i, and none after it, case-ignorable
\* characters skipped.
finalSigma(s, i) ==
  /\ \E j \in 1..(i - 1) :
       isCased(s[j]) /\ \A k \in (j + 1)..(i - 1) : isCaseIgnorable(s[k])
  /\ ~\E j \in (i + 1)..Len(s) :
        isCased(s[j]) /\ \A k \in (i + 1)..(j - 1) : isCaseIgnorable(s[k])

\* String.prototype.toLowerCase on the characters modelled: A-Z map to a-z,
\* Greek capitals to Greek small letters, capital sigma to the final sigma in
\* the Final_Sigma context; Hebrew letters, digits, punctuation and
\* whitespace have no case.
toLowerCase(s) ==
  [i \in 1..Len(s) |->
     IF s[i] \in 65..90 THEN s[i] + 32
     ELSE IF s[i] < 913 \/ s[i] > 937 THEN s[i]
     ELSE IF s[i] = 931 THEN (IF finalSigma(s, i) THEN 962 ELSE 963)
     ELSE IF s[i] = 930 THEN s[i]
     ELSE s[i] + 32]

\* A trim that strips spaces only.
trim_spacesOnly(s) ==
  LET keep == {i \in 1..Len(s) : s[i] # 32}
  IN  IF keep = {} THEN <<>>
      ELSE LET first == CHOOSE i \in keep : \A j \in keep : i <= j
               last == CHOOSE i \in keep : \A j \in keep : j <= i
           IN  SubSeq(s, first, last)

\* String.prototype.trim.
trim(s) ==
  LET keep == {i \in 1..Len(s) : ~isWhitespace(s[i])}
  IN  IF keep = {} THEN <<>>
      ELSE LET first == CHOOSE i \in keep : \A j \in keep : i <= j
               last == CHOOSE i \in keep : \A j \in keep : j <= i
           IN  SubSeq(s, first, last)

\* s.replace(/\s+/g, ' '): every maximal run of whitespace becomes one space.
collapseWhitespace(s) ==
  LET starts == SelectSeq([i \in 1..Len(s) |-> i],
                          LAMBDA i : \/ ~isWhitespace(s[i])
                                     \/ i = 1
                                     \/ ~isWhitespace(s[i - 1]))
  IN  [k \in 1..Len(starts) |->
         IF isWhitespace(s[starts[k]]) THEN 32 ELSE s[starts[k]]]

\* String.prototype.includes.
includes(s, sub) ==
  \E i \in 0..(Len(s) - Len(sub)) : SubSeq(s, i + 1, i + Len(sub)) = sub

RECURSIVE splitScan(_, _, _, _, _)
\* The scan behind String.prototype.split: cur is the piece being read, acc the
\* pieces closed so far.  With runs = TRUE (the separator /\s+/) a whole run of
\* whitespace closes one piece; with runs = FALSE (the separator ' ') every
\* single space closes a piece.
splitScan(s, i, cur, acc, runs) ==
  IF i > Len(s) THEN Append(acc, cur)
  ELSE IF runs /\ isWhitespace(s[i])
    THEN LET rest == {j \in (i + 1)..Len(s) : ~isWhitespace(s[j])}
             next == IF rest = {} THEN Len(s) + 1
                     ELSE CHOOSE j \in rest : \A k \in rest : j <= k
         IN  splitScan(s, next, <<>>, Append(acc, cur), runs)
  ELSE IF ~runs /\ s[i] = 32
    THEN splitScan(s, i + 1, <<>>, Append(acc, cur), runs)
  ELSE splitScan(s, i + 1, Append(cur, s[i]), acc, runs)

\* s.split(/\s+/)
splitWhitespace(s) == splitScan(s, 1, <<>>, <<>>, TRUE)

\* s.split(' ')
splitSpace(s) == splitScan(s, 1, <<>>, <<>>, FALSE)

\* Array.prototype.filter(w => w.length > n) on a list of words.
longerThan(words, n) == SelectSeq(words, LAMBDA w : Len(w) > n)

\* The elements of a list: new Set(list).
toSet(list) == {list[i] : i \in 1..Len(list)}

\* words1.filter(word => words2.includes(word)).length
commonCount(words1, words2) ==
  Len(SelectSeq(words1, LAMBDA w : w \in toSet(words2)))

max(a, b) == IF a >= b THEN a ELSE b

\* A score n/d, and "score > p/q" on the exact fractions.
ratio(n, d) == [n |-> n, d |-> d]
exceeds(score, p, q) == score.n * q > p * score.d

(***************************************************************************)
(* Deduplication, Jaccard revision (src/unnamed/part_000)                  *)
(***************************************************************************)

\* str.toLowerCase().trim().replace(/[^\w\s֐-׿]/g, '').replace(/\s+/g, ' ')
normalize_part000(str) ==
  collapseWhitespace(
    SelectSeq(trim(toLowerCase(str)),
              LAMBDA c : isWordChar(c) \/ isWhitespace(c) \/ isHebrew(c)))

\* A title score that divides by the words of the first title only.
calculateTitleSimilarity_overFirst(title1, title2) ==
  LET normalized1 == normalize_part000(title1)
      normalized2 == normalize_part000(title2)
      words1 == longerThan(splitWhitespace(normalized1), 1)
      words2 == longerThan(splitWhitespace(normalized2), 1)
      set1 == toSet(words1)
      set2 == toSet(words2)
  IN  IF normalized1 = normalized2 THEN ratio(1, 1)
      ELSE IF Len(words1) = 0 \/ Len(words2) = 0 THEN ratio(0, 1)
      ELSE ratio(Cardinality(set1 \cap set2), Cardinality(set1))

\* part_000:4-28.
calculateTitleSimilarity_part000(title1, title2) ==
  LET normalized1 == normalize_part000(title1)
      normalized2 == normalize_part000(title2)
      words1 == longerThan(splitWhitespace(normalized1), 1)
      words2 == longerThan(splitWhitespace(normalized2), 1)
      set1 == toSet(words1)
      set2 == toSet(words2)
  IN  IF normalized1 = normalized2 THEN ratio(1, 1)
      ELSE IF Len(words1) = 0 \/ Len(words2) = 0 THEN ratio(0, 1)
      ELSE ratio(Cardinality(set1 \cap set2), Cardinality(set1 \cup set2))

\* A content score without the guard on falsy arguments.
calculateContentSimilarity_noGuard(desc1, desc2) ==
  LET normalized1 == normalize_part000(desc1)
      normalized2 == normalize_part000(desc2)
      words1 == longerThan(splitWhitespace(normalized1), 2)
      words2 == longerThan(splitWhitespace(normalized2), 2)
  IN  IF normalized1 = normalized2 THEN ratio(1, 1)
      ELSE IF Len(words1) = 0 \/ Len(words2) = 0 THEN ratio(0, 1)
      ELSE ratio(commonCount(words1, words2), max(Len(words1), Len(words2)))

\* part_000:31-51.
calculateContentSimilarity(desc1, desc2) ==
  LET normalized1 == normalize_part000(desc1)
      normalized2 == normalize_part000(desc2)
      words1 == longerThan(splitWhitespace(normalized1), 2)
      words2 == longerThan(splitWhitespace(normalized2), 2)
  IN  IF desc1 = <<>> \/ desc2 = <<>> THEN ratio(0, 1)
      ELSE IF normalized1 = normalized2 THEN ratio(1, 1)
      ELSE IF Len(words1) = 0 \/ Len(words2) = 0 THEN ratio(0, 1)
      ELSE ratio(commonCount(words1, words2), max(Len(words1), Len(words2)))

\* The loop's local state before the first item.
emptyState ==
  [processedItems |-> <<>>, seenTitles |-> {}, seenLinks |-> {},
   processedTitles |-> <<>>]

linkKnown_existingOnly(item, links, st) == item.link \in links

\* existingLinks.has(item.link) || seenLinks.has(item.link)
linkKnown_part000(item, links, st) ==
  item.link \in links \/ item.link \in st.seenLinks

similarToExisting_atLeast(normalizedTitle, titles) ==
  \E existingTitle \in titles :
    LET sim == calculateTitleSimilarity_part000(normalizedTitle, existingTitle)
    IN  sim.n * 100 >= 85 * sim.d

\* The loop over existingTitles: some entry has similarity > 0.85.
similarToExisting_part000(normalizedTitle, titles) ==
  \E existingTitle \in titles :
    exceeds(calculateTitleSimilarity_part000(normalizedTitle, existingTitle),
            85, 100)

similarToProcessed_titleOnly(item, normalizedTitle, st) ==
  \E i \in 1..Len(st.processedItems) :
    exceeds(calculateTitleSimilarity_part000(normalizedTitle,
                                             st.processedTitles[i]), 85, 100)

\* The loop over processedItems: some accepted item has title similarity > 0.85,
\* or title similarity > 0.6 and content similarity > 0.6.
similarToProcessed_part000(item, normalizedTitle, st) ==
  \E i \in 1..Len(st.processedItems) :
    LET titleSimilarity ==
          calculateTitleSimilarity_part000(normalizedTitle, st.processedTitles[i])
        contentSimilarity ==
          calculateContentSimilarity(item.description,
                                     st.processedItems[i].description)
    IN  \/ exceeds(titleSimilarity, 85, 100)
        \/ exceeds(titleSimilarity, 6, 10) /\ exceeds(contentSimilarity, 6, 10)

accept_front(item, normalizedTitle, st) ==
  [processedItems |-> <<item>> \o st.processedItems,
   seenTitles |-> st.seenTitles \cup {normalizedTitle},
   seenLinks |-> st.seenLinks \cup {item.link},
   processedTitles |-> <<normalizedTitle>> \o st.processedTitles]

\* processedItems.push(item); seenTitles.add(...); seenLinks.add(...);
\* processedTitles.push(normalizedTitle)
accept_part000(item, normalizedTitle, st) ==
  [processedItems |-> Append(st.processedItems, item),
   seenTitles |-> st.seenTitles \cup {normalizedTitle},
   seenLinks |-> st.seenLinks \cup {item.link},
   processedTitles |-> Append(st.processedTitles, normalizedTitle)]

step_recordsDropped(st, item, links, titles) ==
  LET normalizedTitle == normalize_part000(item.title)
      noted == [st EXCEPT !.seenTitles = @ \cup {normalizedTitle},
                          !.seenLinks = @ \cup {item.link}]
  IN  IF linkKnown_part000(item, links, st) THEN noted
      ELSE IF normalizedTitle \in st.seenTitles THEN noted
      ELSE IF similarToExisting_part000(normalizedTitle, titles) THEN noted
      ELSE IF similarToProcessed_part000(item, normalizedTitle, st) THEN noted
      ELSE accept_part000(item, normalizedTitle, st)

step_forgetsOnDrop(st, item, links, titles) ==
  LET normalizedTitle == normalize_part000(item.title)
      cleared == [st EXCEPT !.seenTitles = {}, !.seenLinks = {}]
  IN  IF linkKnown_part000(item, links, st) THEN cleared
      ELSE IF normalizedTitle \in st.seenTitles THEN cleared
      ELSE IF similarToExisting_part000(normalizedTitle, titles) THEN cleared
      ELSE IF similarToProcessed_part000(item, normalizedTitle, st) THEN cleared
      ELSE accept_part000(item, normalizedTitle, st)

\* One pass of the for loop over items.
step_part000(st, item, links, titles) ==
  LET normalizedTitle == normalize_part000(item.title)
  IN  IF linkKnown_part000(item, links, st) THEN st
      ELSE IF normalizedTitle \in st.seenTitles THEN st
      ELSE IF similarToExisting_part000(normalizedTitle, titles) THEN st
      ELSE IF similarToProcessed_part000(item, normalizedTitle, st) THEN st
      ELSE accept_part000(item, normalizedTitle, st)

RECURSIVE loop_part000(_, _, _, _)
loop_part000(batch, n, links, titles) ==
  IF n = 0 THEN emptyState
  ELSE step_part000(loop_part000(batch, n - 1, links, titles), batch[n],
                    links, titles)

filterDuplicates_part000(batch, links, titles) ==
  loop_part000(batch, Len(batch), links, titles).processedItems

(***************************************************************************)
(* Deduplication, 0.9-threshold revision (src/unnamed/part_001)            *)
(***************************************************************************)

\* str.toLowerCase().trim().replace(/[^\w\s]/g, '')
normalize_part001(str) ==
  SelectSeq(trim(toLowerCase(str)), LAMBDA c : isWordChar(c) \/ isWhitespace(c))

calculateTitleSimilarity_part001(title1, title2) ==
  LET normalized1 == normalize_part001(title1)
      normalized2 == normalize_part001(title2)
      words1 == longerThan(splitWhitespace(normalized1), 2)
      words2 == longerThan(splitWhitespace(normalized2), 2)
  IN  IF normalized1 = normalized2 THEN ratio(1, 1)
      ELSE IF Len(words1) = 0 \/ Len(words2) = 0 THEN ratio(0, 1)
      ELSE ratio(commonCount(words1, words2), max(Len(words1), Len(words2)))

\* One pass of the for loop over items.
step_part001(st, item, links, titles) ==
  LET normalizedTitle == trim(toLowerCase(item.title))
  IN  IF item.link \in links \/ item.link \in st.seenLinks THEN st
      ELSE IF normalizedTitle \in st.seenTitles THEN st
      ELSE IF \E existingTitle \in titles :
                exceeds(calculateTitleSimilarity_part001(normalizedTitle,
                                                         existingTitle), 9, 10)
        THEN st
      ELSE IF \E i \in 1..Len(st.processedItems) :
                exceeds(calculateTitleSimilarity_part001(
                          normalizedTitle,
                          toLowerCase(st.processedItems[i].title)), 9, 10)
        THEN st
      ELSE [processedItems |-> Append(st.processedItems, item),
            seenTitles |-> st.seenTitles \cup {normalizedTitle},
            seenLinks |-> st.seenLinks \cup {item.link},
            processedTitles |-> st.processedTitles]

RECURSIVE loop_part001(_, _, _, _)
loop_part001(batch, n, links, titles) ==
  IF n = 0 THEN emptyState
  ELSE step_part001(loop_part001(batch, n - 1, links, titles), batch[n],
                    links, titles)

filterDuplicates_part001(batch, links, titles) ==
  loop_part001(batch, Len(batch), links, titles).processedItems

(***************************************************************************)
(* Deduplication, process-alerts-centrally/deduplication.ts                *)
(***************************************************************************)

calculateTitleSimilarity_dedup(title1, title2) ==
  LET words1 == longerThan(splitSpace(title1), 2)
      words2 == longerThan(splitSpace(title2), 2)
  IN  IF Len(words1) = 0 \/ Len(words2) = 0 THEN ratio(0, 1)
      ELSE ratio(commonCount(words1, words2), max(Len(words1), Len(words2)))

\* The predicate handed to items.filter.
keeps_dedup(item, links, titles) ==
  /\ item.link \notin links
  /\ ~\E existingTitle \in titles :
        exceeds(calculateTitleSimilarity_dedup(toLowerCase(item.title),
                                               existingTitle), 85, 100)

filterDuplicates_dedup(batch, links, titles) ==
  SelectSeq(batch, LAMBDA item : keeps_dedup(item, links, titles))

(***************************************************************************)
(* Inputs of the deduplication runs                                        *)
(***************************************************************************)

\* "Rocket hits Haifa"
titleRocket ==
  <<82,111,99,107,101,116,32,104,105,116,115,32,72,97,105,102,97>>

\* "rocket hits haifa!"
titleRocketBang ==
  <<114,111,99,107,101,116,32,104,105,116,115,32,104,97,105,102,97,33>>

\* "Haifa hits rocket"
titleRocketSwapped ==
  <<72,97,105,102,97,32,104,105,116,115,32,114,111,99,107,101,116>>

\* "Rocket hits Haifa port"
titleRocketPort ==
  <<82,111,99,107,101,116,32,104,105,116,115,32,72,97,105,102,97,32,112,111,114,116>>

\* "אזעקות בצפון"
titleSirens ==
  <<1488,1494,1506,1511,1493,1514,32,1489,1510,1508,1493,1503>>

\* "one two three"
descShort ==
  <<111,110,101,32,116,119,111,32,116,104,114,101,101>>

\* "one two three four"
descLong ==
  <<111,110,101,32,116,119,111,32,116,104,114,101,101,32,102,111,117,114>>

\* "five six"
descOther ==
  <<102,105,118,101,32,115,105,120>>

\* "rocket hits haifa"
storedRocket ==
  <<114,111,99,107,101,116,32,104,105,116,115,32,104,97,105,102,97>>

\* "אזעקות בצפון הארץ"
storedSirens ==
  <<1488,1494,1506,1511,1493,1514,32,1489,1510,1508,1493,1503,32,1492,1488,1512,1509>>

\* 20 two-letter words: "aa bb cc ... tt"
stored20 ==
  <<97,97,32,98,98,32,99,99,32,100,100,32,101,101,32,102,102,32,103,103,32,104,104,32,105,105,32,106,106,32,107,107,32,108,108,32,109,109,32,110,110,32,111,111,32,112,112,32,113,113,32,114,114,32,115,115,32,116,116>>

\* the first 17 of those words: Jaccard 17/20 = 0.85 with stored20
title17 ==
  <<97,97,32,98,98,32,99,99,32,100,100,32,101,101,32,102,102,32,103,103,32,104,104,32,105,105,32,106,106,32,107,107,32,108,108,32,109,109,32,110,110,32,111,111,32,112,112,32,113,113>>

\* the first 18 of those words: Jaccard 18/20 = 0.9 with stored20
title18 ==
  <<97,97,32,98,98,32,99,99,32,100,100,32,101,101,32,102,102,32,103,103,32,104,104,32,105,105,32,106,106,32,107,107,32,108,108,32,109,109,32,110,110,32,111,111,32,112,112,32,113,113,32,114,114>>

\* the first 16 of those words: Jaccard 16/20 = 0.8 with stored20
title16 ==
  <<97,97,32,98,98,32,99,99,32,100,100,32,101,101,32,102,102,32,103,103,32,104,104,32,105,105,32,106,106,32,107,107,32,108,108,32,109,109,32,110,110,32,111,111,32,112,112>>


\* The longest batch handed to filterDuplicates.
MaxItems == 3

item(link, title, description) ==
  [link |-> link, title |-> title, description |-> description]

\* Feed items: equal titles under distinct links, titles equal up to case and
\* punctuation, reordered words (Jaccard 1), one more word (Jaccard 3/4) with
\* overlapping, disjoint and empty descriptions, one link used twice.
ItemPool ==
  { item("L1", titleRocket, descShort),
    item("L2", titleRocket, descLong),
    item("L3", titleRocketBang, descOther),
    item("L4", titleRocketSwapped, <<>>),
    item("L5", titleRocketPort, descLong),
    item("L1", titleSirens, descOther) }

\* The stored links and titles (index.ts:83-84; titles are stored lowercased).
ExistingPool ==
  { [links |-> {}, titles |-> {}],
    [links |-> {"L1"}, titles |-> {}],
    [links |-> {}, titles |-> {storedRocket}],
    [links |-> {"L1"}, titles |-> {storedSirens}] }

\* Items whose titles sit at, above and below 0.85 of a stored title.
ThresholdPool ==
  { item("L1", title17, descShort),
    item("L2", title18, descShort),
    item("L3", title16, descOther),
    item("L4", titleRocket, descOther) }

Batches(pool) == UNION { [1..n -> pool] : n \in 0..MaxItems }

LocIdle ==
  /\ alertLocation = <<>>
  /\ userLocation = <<>>
  /\ impl = "none"
  /\ relevant = FALSE

Init ==
  /\ items \in Batches(ItemPool)
  /\ \E e \in ExistingPool :
       existingLinks = e.links /\ existingTitles = e.titles
  /\ rev = "none"
  /\ result = <<>>
  /\ LocIdle
  /\ NormIdle
  /\ SimIdle
  /\ ClassIdle
  /\ HandlerIdle
  /\ PushIdle
  /\ ClientIdle
  /\ HookIdle

InitThreshold ==
  /\ items \in Batches(ThresholdPool)
  /\ existingLinks \in { {}, {"L4"} }
  /\ existingTitles \in { {}, {stored20}, {stored20, storedRocket} }
  /\ rev = "none"
  /\ result = <<>>
  /\ LocIdle
  /\ NormIdle
  /\ SimIdle
  /\ ClassIdle
  /\ HandlerIdle
  /\ PushIdle
  /\ ClientIdle
  /\ HookIdle

\* A call of filterDuplicates of src/unnamed/part_000.
CallFilterDuplicates_part000 ==
  /\ rev = "none"
  /\ rev' = "part_000"
  /\ result' = filterDuplicates_part000(items, existingLinks, existingTitles)
  /\ UNCHANGED <<items, existingLinks, existingTitles, locVars, normVars, simVars, classVars, handlerVars, pushVars, clientVars, hookVars>>

\* A call of filterDuplicates of src/unnamed/part_001.
CallFilterDuplicates_part001 ==
  /\ rev = "none"
  /\ rev' = "part_001"
  /\ result' = filterDuplicates_part001(items, existingLinks, existingTitles)
  /\ UNCHANGED <<items, existingLinks, existingTitles, locVars, normVars, simVars, classVars, handlerVars, pushVars, clientVars, hookVars>>

\* A call of filterDuplicates of deduplication.ts.
CallFilterDuplicates_dedup ==
  /\ rev = "none"
  /\ rev' = "dedup"
  /\ result' = filterDuplicates_dedup(items, existingLinks, existingTitles)
  /\ UNCHANGED <<items, existingLinks, existingTitles, locVars, normVars, simVars, classVars, handlerVars, pushVars, clientVars, hookVars>>

Next ==
  \/ CallFilterDuplicates_part000
  \/ CallFilterDuplicates_part001
  \/ CallFilterDuplicates_dedup

Spec == Init /\ [][Next]_vars

SpecThreshold == InitThreshold /\ [][CallFilterDuplicates_part000]_vars

(***************************************************************************)
(* Claims about filterDuplicates                                           *)
(***************************************************************************)

\* The revision that ran, applied to another batch with the same stored sets.
filterDuplicatesOf(r, batch) ==
  CASE r = "part_000" ->
         filterDuplicates_part000(batch, existingLinks, existingTitles)
    [] r = "part_001" ->
         filterDuplicates_part001(batch, existingLinks, existingTitles)
    [] r = "dedup" ->
         filterDuplicates_dedup(batch, existingLinks, existingTitles)

SameTitleDistinctLinks ==
  /\ Len(items) >= 1
  /\ \A i, j \in 1..Len(items) :
       /\ items[i].title = items[j].title
       /\ i # j => items[i].link # items[j].link
  /\ existingLinks = {}
  /\ existingTitles = {}

\* C1: a batch of items with one title and pairwise distinct links, with empty
\* existingLinks and existingTitles, comes back as exactly its first item, in
\* every revision of filterDuplicates.
C1_SameTitleKeepsFirst ==
  (rev # "none" /\ SameTitleDistinctLinks) => result = <<items[1]>>

\* C1, for the two revisions that loop with seenTitles (part_000, part_001).
C1_LoopRevisionsKeepFirst ==
  (rev \in {"part_000", "part_001"} /\ SameTitleDistinctLinks)
    => result = <<items[1]>>

\* C2: part_000 returns no item whose link is in existingLinks and no two
\* items with the same link.
C2_NoKnownOrRepeatedLink ==
  rev = "part_000" =>
    /\ \A i \in 1..Len(result) : result[i].link \notin existingLinks
    /\ \A i, j \in 1..Len(result) : i # j => result[i].link # result[j].link

\* A stored link drops an item whose title nothing else resembles.
C2_Witness ==
  /\ rev = "part_000"
  /\ existingTitles = {}
  /\ existingLinks = {"L1"}
  /\ items = <<item("L3", titleRocketBang, descOther),
               item("L1", titleSirens, descOther)>>
  /\ result = <<items[1]>>

titleSimilarity(b, a) ==
  calculateTitleSimilarity_part000(normalize_part000(b.title),
                                   normalize_part000(a.title))

contentSimilarity(b, a) ==
  calculateContentSimilarity(b.description, a.description)

\* C3: of two items part_000 returns, the later one is neither more than 0.85
\* title-similar to the earlier one, nor more than 0.6 title-similar and more
\* than 0.6 content-similar to it.
C3_ReturnedPairsNotSimilar ==
  rev = "part_000" =>
    \A i, j \in 1..Len(result) :
      i < j =>
        /\ ~exceeds(titleSimilarity(result[j], result[i]), 85, 100)
        /\ ~(/\ exceeds(titleSimilarity(result[j], result[i]), 6, 10)
             /\ exceeds(contentSimilarity(result[j], result[i]), 6, 10))

\* Two returned items with title similarity 3/4 and unrelated descriptions, and
\* an item with title similarity 3/4 dropped for its description.
C3_Witness ==
  /\ rev = "part_000"
  /\ Len(items) = 3
  /\ Len(result) = 2
  /\ exceeds(titleSimilarity(result[2], result[1]), 6, 10)
  /\ ~exceeds(contentSimilarity(result[2], result[1]), 6, 10)
  /\ \E k \in 1..3 :
       /\ items[k] \notin toSet(result)
       /\ items[k].link \notin existingLinks \cup {result[1].link, result[2].link}
       /\ \E i \in 1..2 :
            /\ ~exceeds(titleSimilarity(items[k], result[i]), 85, 100)
            /\ exceeds(titleSimilarity(items[k], result[i]), 6, 10)
            /\ exceeds(contentSimilarity(items[k], result[i]), 6, 10)

similarityToStored(it, t) ==
  calculateTitleSimilarity_part000(normalize_part000(it.title), t)

\* C4: every item part_000 returns is at most 0.85 title-similar to every entry
\* of existingTitles; an item more than 0.85 similar to an entry is dropped
\* although its link is new; a first item with a new link that is at most
\* (in particular exactly) 0.85 similar to every entry is returned.
C4_StoredTitleThreshold ==
  rev = "part_000" =>
    /\ \A i \in 1..Len(result) : \A t \in existingTitles :
         ~exceeds(similarityToStored(result[i], t), 85, 100)
    /\ \A k \in 1..Len(items) :
         (\E t \in existingTitles : exceeds(similarityToStored(items[k], t), 85, 100))
           => items[k] \notin toSet(result)
    /\ ( /\ Len(items) >= 1
         /\ items[1].link \notin existingLinks
         /\ \A t \in existingTitles :
              ~exceeds(similarityToStored(items[1], t), 85, 100) )
       => (Len(result) >= 1 /\ result[1] = items[1])

\* A title exactly 17/20 = 0.85 similar to the stored title is returned, and
\* one 18/20 similar, under a new link, is dropped.
C4_Witness ==
  /\ rev = "part_000"
  /\ existingTitles = {stored20}
  /\ existingLinks = {}
  /\ items = <<item("L1", title17, descShort), item("L2", title18, descShort)>>
  /\ similarityToStored(items[1], stored20) = ratio(17, 20)
  /\ similarityToStored(items[2], stored20) = ratio(18, 20)
  /\ result = <<items[1]>>

RECURSIVE isSubsequence(_, _)
\* r can be got from s by deleting elements.
isSubsequence(r, s) ==
  IF r = <<>> THEN TRUE
  ELSE IF s = <<>> THEN FALSE
  ELSE IF Head(r) = Head(s) THEN isSubsequence(Tail(r), Tail(s))
  ELSE isSubsequence(r, Tail(s))

isPrefix(r, s) == Len(r) <= Len(s) /\ SubSeq(s, 1, Len(r)) = r

\* C5: in every revision the returned list is a subsequence of the batch (no
\* item added, altered or reordered), and the result for each prefix of the
\* batch is a prefix of the result for the batch.
C5_StableFirstSeenWins ==
  rev # "none" =>
    /\ isSubsequence(result, items)
    /\ \A k \in 0..Len(items) :
         isPrefix(filterDuplicatesOf(rev, SubSeq(items, 1, k)), result)

\* The middle item of three is dropped and the other two come back in order.
C5_Witness ==
  /\ rev \in {"part_000", "dedup"}
  /\ Len(items) = 3
  /\ items[1] # items[3]
  /\ result = <<items[1], items[3]>>
  /\ filterDuplicatesOf(rev, SubSeq(items, 1, 2)) = <<items[1]>>

(***************************************************************************)
(* Location normalizer and relevance matcher                               *)
(* (process-alerts-centrally/location-utils.ts, hooks/use-central-alerts)  *)
(***************************************************************************)

\* "לא ידוע"
unknownLocation ==
  <<1500,1488,32,1497,1491,1493,1506>>

\* "תל אביב"
telAviv ==
  <<1514,1500,32,1488,1489,1497,1489>>

\* "ת"א"
telAvivQuoted ==
  <<1514,34,1488>>

\* "תל-אביב"
telAvivHyphen ==
  <<1514,1500,45,1488,1489,1497,1489>>

\* "תל אביב-יפו"
telAvivYafo ==
  <<1514,1500,32,1488,1489,1497,1489,45,1497,1508,1493>>

\* "ירושלים"
jerusalem ==
  <<1497,1512,1493,1513,1500,1497,1501>>

\* "חיפה"
haifa ==
  <<1495,1497,1508,1492>>

\* "באר שבע"
beerSheva ==
  <<1489,1488,1512,32,1513,1489,1506>>

\* "רמת גן"
ramatGan ==
  <<1512,1502,1514,32,1490,1503>>

\* "גבעתיים"
givatayim ==
  <<1490,1489,1506,1514,1497,1497,1501>>

\* "בני ברק"
bneiBrak ==
  <<1489,1504,1497,32,1489,1512,1511>>

\* "חולון"
holon ==
  <<1495,1493,1500,1493,1503>>

\* "בת ים"
batYam ==
  <<1489,1514,32,1497,1501>>

\* "מעלה אדומים"
maaleAdumim ==
  <<1502,1506,1500,1492,32,1488,1491,1493,1502,1497,1501>>

\* "גבעת זאב"
givatZeev ==
  <<1490,1489,1506,1514,32,1494,1488,1489>>

\* "קריות"
krayot ==
  <<1511,1512,1497,1493,1514>>

\* "טירת הכרמל"
tiratCarmel ==
  <<1496,1497,1512,1514,32,1492,1499,1512,1502,1500>>

\* "אופקים"
ofakim ==
  <<1488,1493,1508,1511,1497,1501>>

\* "נתיבות"
netivot ==
  <<1504,1514,1497,1489,1493,1514>>

\* "ישראל"
israel ==
  <<1497,1513,1512,1488,1500>>

\* "כל הארץ"
allCountry ==
  <<1499,1500,32,1492,1488,1512,1509>>

\* "המרכז"
theCenter ==
  <<1492,1502,1512,1499,1494>>

\* "הדרום"
theSouth ==
  <<1492,1491,1512,1493,1501>>

\* "הצפון"
theNorth ==
  <<1492,1510,1508,1493,1503>>

\* "גוש דן"
gushDan ==
  <<1490,1493,1513,32,1491,1503>>

\* The dash class without the Hebrew maqaf U+05BE.
isDashVariant_noMaqaf(c) ==
  \/ c \in 8208..8213
  \/ c \in {8722, 9135, 65112, 65293, 45}

\* The class [\u2010-\u2015\u2212\u23AF\uFE58\uFF0D\u002D\u05BE].
isDashVariant(c) ==
  \/ c \in 8208..8213
  \/ c \in {8722, 9135, 65112, 65293, 45, 1470}

\* s.replace(/[...]/g, '-')
replaceDashes(s) ==
  [i \in 1..Len(s) |-> IF isDashVariant(s[i]) THEN 45 ELSE s[i]]

\* The alias folding both copies end with.
foldTelAviv(normalized) ==
  IF \/ includes(normalized, telAviv)
     \/ includes(normalized, telAvivQuoted)
     \/ includes(normalized, telAvivHyphen)
  THEN telAvivYafo
  ELSE normalized

\* location-utils.ts: trim and lowercase, then dashes, then whitespace.
normalizeLocation(location) ==
  IF location = <<>> THEN <<>>
  ELSE foldTelAviv(collapseWhitespace(replaceDashes(toLowerCase(trim(location)))))

\* use-central-alerts.tsx: trim, dashes, whitespace, then lowercase.
normalizeLocation_client(location) ==
  IF location = <<>> THEN <<>>
  ELSE foldTelAviv(toLowerCase(collapseWhitespace(replaceDashes(trim(location)))))

nationalLocations ==
  <<israel, allCountry, theCenter, theSouth, theNorth, gushDan>>

\* Object.entries(locationMap), in insertion order.
locationMap ==
  << [area |-> telAvivYafo,
      nearby |-> <<ramatGan, givatayim, bneiBrak, holon, batYam>>],
     [area |-> jerusalem, nearby |-> <<maaleAdumim, givatZeev>>],
     [area |-> haifa, nearby |-> <<krayot, tiratCarmel>>],
     [area |-> beerSheva, nearby |-> <<ofakim, netivot>>] >>

shortCircuit_noSentinel(alert, user) == alert = <<>> \/ user = <<>>

\* !alertLocation || !userLocation || alertLocation === "לא ידוע"
shortCircuit(alert, user) ==
  alert = <<>> \/ user = <<>> \/ alert = unknownLocation

nationalMatch_exact(normalizedAlert, terms) ==
  \E i \in 1..Len(terms) : normalizedAlert = terms[i]

\* nationalLocations.some(loc => normalizedAlert.includes(normalizeLocation(loc))),
\* terms being the normalized entries.
nationalMatch(normalizedAlert, terms) ==
  \E i \in 1..Len(terms) : includes(normalizedAlert, terms[i])

nearbyMatch_anyArea(normalizedAlert, normalizedUser, entries) ==
  \E i \in 1..Len(entries) :
    \E j \in 1..Len(entries[i].nearby) :
      includes(normalizedAlert, entries[i].nearby[j])

\* The loop over Object.entries(locationMap), entries holding the normalized
\* areas and places.
nearbyMatch(normalizedAlert, normalizedUser, entries) ==
  \E i \in 1..Len(entries) :
    /\ normalizedUser = entries[i].area
    /\ \E j \in 1..Len(entries[i].nearby) :
         includes(normalizedAlert, entries[i].nearby[j])

substringMatch_eitherWay(normalizedAlert, normalizedUser) ==
  /\ \/ includes(normalizedAlert, normalizedUser)
     \/ includes(normalizedUser, normalizedAlert)
  /\ Len(normalizedUser) > 3

substringMatch_from3(normalizedAlert, normalizedUser) ==
  includes(normalizedAlert, normalizedUser) /\ Len(normalizedUser) >= 3

\* normalizedAlert.includes(normalizedUser) && normalizedUser.length > 3
substringMatch(normalizedAlert, normalizedUser) ==
  includes(normalizedAlert, normalizedUser) /\ Len(normalizedUser) > 3

\* location-utils.ts
isLocationRelevant(alert, user) ==
  IF shortCircuit(alert, user) THEN FALSE
  ELSE
    LET normalizedAlert == normalizeLocation(alert)
        normalizedUser == normalizeLocation(user)
        terms == [i \in 1..Len(nationalLocations) |->
                    normalizeLocation(nationalLocations[i])]
        entries == [i \in 1..Len(locationMap) |->
                      [area |-> normalizeLocation(locationMap[i].area),
                       nearby |-> [j \in 1..Len(locationMap[i].nearby) |->
                                     normalizeLocation(locationMap[i].nearby[j])]]]
    IN  IF normalizedAlert = normalizedUser THEN TRUE
        ELSE IF nationalMatch(normalizedAlert, terms) THEN TRUE
        ELSE IF nearbyMatch(normalizedAlert, normalizedUser, entries) THEN TRUE
        ELSE IF substringMatch(normalizedAlert, normalizedUser) THEN TRUE
        ELSE FALSE

\* use-central-alerts.tsx
isLocationRelevant_client(alert, user) ==
  IF shortCircuit(alert, user) THEN FALSE
  ELSE
    LET normalizedLocation == normalizeLocation_client(alert)
        normalizedUserLocation == normalizeLocation_client(user)
        terms == [i \in 1..Len(nationalLocations) |->
                    normalizeLocation_client(nationalLocations[i])]
        entries == [i \in 1..Len(locationMap) |->
                      [area |-> normalizeLocation_client(locationMap[i].area),
                       nearby |-> [j \in 1..Len(locationMap[i].nearby) |->
                                     normalizeLocation_client(
                                       locationMap[i].nearby[j])]]]
    IN  IF normalizedLocation = normalizedUserLocation THEN TRUE
        ELSE IF nationalMatch(normalizedLocation, terms) THEN TRUE
        ELSE IF nearbyMatch(normalizedLocation, normalizedUserLocation, entries)
          THEN TRUE
        ELSE IF substringMatch(normalizedLocation, normalizedUserLocation)
          THEN TRUE
        ELSE FALSE

\* index.ts:509-521, the copy inlined in the monolithic handler: the same
\* order of steps as location-utils.ts.
normalizeLocation_index(location) ==
  IF location = <<>> THEN <<>>
  ELSE foldTelAviv(collapseWhitespace(replaceDashes(toLowerCase(trim(location)))))

\* index.ts:458-507, the copy inlined in the monolithic handler.
isLocationRelevant_index(alert, user) ==
  IF shortCircuit(alert, user) THEN FALSE
  ELSE
    LET normalizedAlert == normalizeLocation_index(alert)
        normalizedUser == normalizeLocation_index(user)
        terms == [i \in 1..Len(nationalLocations) |->
                    normalizeLocation_index(nationalLocations[i])]
        entries == [i \in 1..Len(locationMap) |->
                      [area |-> normalizeLocation_index(locationMap[i].area),
                       nearby |-> [j \in 1..Len(locationMap[i].nearby) |->
                                     normalizeLocation_index(
                                       locationMap[i].nearby[j])]]]
    IN  IF normalizedAlert = normalizedUser THEN TRUE
        ELSE IF nationalMatch(normalizedAlert, terms) THEN TRUE
        ELSE IF nearbyMatch(normalizedAlert, normalizedUser, entries) THEN TRUE
        ELSE IF substringMatch(normalizedAlert, normalizedUser) THEN TRUE
        ELSE FALSE

(***************************************************************************)
(* Inputs of the relevance checks                                          *)
(***************************************************************************)

\* " " (one space)
locBlank ==
  <<32>>

\* "אזור המרכז"
locCenterArea ==
  <<1488,1494,1493,1512,32,1492,1502,1512,1499,1494>>

\* "המרכז, תל אביב"
locCenterTelAviv ==
  <<1492,1502,1512,1499,1494,44,32,1514,1500,32,1488,1489,1497,1489>>

\* "מעלה אדומים ליד תל אביב"
locMaaleNearTelAviv ==
  <<1502,1506,1500,1492,32,1488,1491,1493,1502,1497,1501,32,1500,1497,1491,32,1514,1500,32,1488,1489,1497,1489>>

\* "צפון חיפה"
locNorthHaifa ==
  <<1510,1508,1493,1503,32,1495,1497,1508,1492>>

\* "קריות חיפה"
locKrayotHaifa ==
  <<1511,1512,1497,1493,1514,32,1495,1497,1508,1492>>

\* "חי"
locHai ==
  <<1495,1497>>

\* "לוד"
locLod ==
  <<1500,1493,1491>>

\* "נמל לוד"
locLodPort ==
  <<1504,1502,1500,32,1500,1493,1491>>

\* "אילת"
locEilat ==
  <<1488,1497,1500,1514>>

\* " חיפה " (padded with spaces)
locHaifaPadded ==
  <<32,1495,1497,1508,1492,32>>

\* "Haifa"
locHaifaLatin ==
  <<72,97,105,102,97>>

\* "haifa"
locHaifaLatinLower ==
  <<104,97,105,102,97>>

\* " לא ידוע " (the sentinel padded with spaces)
locUnknownPadded ==
  <<32,1500,1488,32,1497,1491,1493,1506,32>>

\* "לא  ידוע" (the sentinel with two inner spaces)
locUnknownWide ==
  <<1500,1488,32,32,1497,1491,1493,1506>>

\* "ידוע" (a fragment of the sentinel, four characters)
locKnown ==
  <<1497,1491,1493,1506>>

\* "ΑΣ" + U+FEFF + "Α" (Greek capitals around a zero-width no-break space)
locGreekCapitals ==
  <<913,931,65279,913>>

\* "ασ α"
locGreekSmall ==
  <<945,963,32,945>>

\* Alert and user locations: the empty string, the sentinel, the anchors and
\* their spellings, listed and unlisted places, national-scope terms alone and
\* beside other text, short fragments and the places that contain them.
LocationPool ==
  { <<>>, locBlank, unknownLocation,
    telAviv, telAvivQuoted, telAvivHyphen, telAvivYafo,
    jerusalem, haifa, beerSheva,
    ramatGan, maaleAdumim, krayot, ofakim,
    israel, locCenterArea, locCenterTelAviv, locMaaleNearTelAviv,
    locNorthHaifa, locKrayotHaifa, locHai, locLod, locLodPort, locEilat,
    locHaifaPadded, locHaifaLatin, locHaifaLatinLower,
    locUnknownPadded, locUnknownWide, locKnown,
    locGreekCapitals, locGreekSmall }

DedupIdle ==
  /\ items = <<>>
  /\ existingLinks = {}
  /\ existingTitles = {}
  /\ rev = "none"
  /\ result = <<>>

InitLoc ==
  /\ alertLocation \in LocationPool
  /\ userLocation \in LocationPool
  /\ impl = "none"
  /\ relevant = FALSE
  /\ DedupIdle
  /\ NormIdle
  /\ SimIdle
  /\ ClassIdle
  /\ HandlerIdle
  /\ PushIdle
  /\ ClientIdle
  /\ HookIdle

\* A call of isLocationRelevant of location-utils.ts.
CallIsLocationRelevant ==
  /\ impl = "none"
  /\ impl' = "server"
  /\ relevant' = isLocationRelevant(alertLocation, userLocation)
  /\ UNCHANGED <<alertLocation, userLocation, dedupVars, normVars, simVars, classVars, handlerVars, pushVars, clientVars, hookVars>>

\* A call of isLocationRelevant of use-central-alerts.tsx.
CallIsLocationRelevant_client ==
  /\ impl = "none"
  /\ impl' = "client"
  /\ relevant' = isLocationRelevant_client(alertLocation, userLocation)
  /\ UNCHANGED <<alertLocation, userLocation, dedupVars, normVars, simVars, classVars, handlerVars, pushVars, clientVars, hookVars>>

\* A call of isLocationRelevant of index.ts.
CallIsLocationRelevant_index ==
  /\ impl = "none"
  /\ impl' = "index"
  /\ relevant' = isLocationRelevant_index(alertLocation, userLocation)
  /\ UNCHANGED <<alertLocation, userLocation, dedupVars, normVars, simVars, classVars, handlerVars, pushVars, clientVars, hookVars>>

NextLoc ==
  \/ CallIsLocationRelevant
  \/ CallIsLocationRelevant_client
  \/ CallIsLocationRelevant_index

SpecLoc == InitLoc /\ [][NextLoc]_vars

(***************************************************************************)
(* Claims about isLocationRelevant                                         *)
(***************************************************************************)

\* The normalizer of the copy that ran.
normalizeOf(i, location) ==
  IF i = "client" THEN normalizeLocation_client(location)
  ELSE normalizeLocation(location)

normalizedAlertLocation == normalizeOf(impl, alertLocation)
normalizedUserLocation == normalizeOf(impl, userLocation)

containsNationalTerm(location) ==
  \E i \in 1..Len(nationalLocations) : includes(location, nationalLocations[i])

containsNearbyOf(location, entry) ==
  \E j \in 1..Len(entry.nearby) : includes(location, entry.nearby[j])

\* C6: isLocationRelevant is false whenever the alert location is the sentinel,
\* whatever the user location, and whenever either argument is empty.
C6_SentinelOrEmptyNeverRelevant ==
  impl # "none" =>
    /\ alertLocation = unknownLocation => relevant = FALSE
    /\ (alertLocation = <<>> \/ userLocation = <<>>) => relevant = FALSE

\* The sentinel as alert and as user location: equal strings, not relevant.
C6_Witness ==
  /\ impl # "none"
  /\ alertLocation = unknownLocation
  /\ userLocation = unknownLocation
  /\ relevant = FALSE

\* C7: for non-empty arguments and an alert location other than the sentinel,
\* the result is true exactly when, on the normalized strings, the two are equal,
\* or the alert contains a national-scope term, or the user equals a key of the
\* adjacency table and the alert contains one of that key's places, or the alert
\* contains the user and the user is longer than 3 characters.
C7_RelevantExactlyByFourRules ==
  (impl # "none" /\ alertLocation # <<>> /\ userLocation # <<>>
     /\ alertLocation # unknownLocation) =>
    relevant =
      ( \/ normalizedAlertLocation = normalizedUserLocation
        \/ containsNationalTerm(normalizedAlertLocation)
        \/ \E i \in 1..Len(locationMap) :
             /\ normalizedUserLocation = locationMap[i].area
             /\ containsNearbyOf(normalizedAlertLocation, locationMap[i])
        \/ /\ includes(normalizedAlertLocation, normalizedUserLocation)
           /\ Len(normalizedUserLocation) > 3 )

\* The user location contains the alert location and nothing else matches: not
\* relevant.
C7_Witness ==
  /\ impl # "none"
  /\ alertLocation = haifa
  /\ userLocation = locNorthHaifa
  /\ includes(normalizedUserLocation, normalizedAlertLocation)
  /\ relevant = FALSE

\* C8 as stated: an alert whose location string contains a national-scope term
\* is relevant to every non-empty user location, whatever else the string
\* contains.
C8_NationalTermInRawLocation ==
  (impl # "none" /\ userLocation # <<>> /\ containsNationalTerm(alertLocation))
    => relevant = TRUE

\* C8 as amended: an alert whose normalized location contains a national-scope
\* term is relevant to every non-empty user location.
C8_NationalTermInNormalizedLocation ==
  (impl # "none" /\ userLocation # <<>>
     /\ containsNationalTerm(normalizedAlertLocation))
    => relevant = TRUE

\* A national-scope term beside other text, and a user in an unrelated place.
C8_Witness ==
  /\ impl # "none"
  /\ alertLocation = locCenterArea
  /\ userLocation = locEilat
  /\ relevant = TRUE

C9_WitnessUnlisted ==
  /\ impl # "none"
  /\ userLocation = jerusalem
  /\ alertLocation = krayot
  /\ relevant = FALSE

\* C10: when the normalized user location has at most 3 characters, an alert
\* whose normalized location contains it, differs from it and contains no
\* national-scope term is not relevant; a result of true that none of the first
\* three rules gives comes with a user location longer than 3 characters.
C10_SubstringNeedsMoreThanThree ==
  impl # "none" =>
    /\ ( /\ Len(normalizedUserLocation) <= 3
         /\ includes(normalizedAlertLocation, normalizedUserLocation)
         /\ normalizedAlertLocation # normalizedUserLocation
         /\ ~containsNationalTerm(normalizedAlertLocation) )
         => relevant = FALSE
    /\ ( /\ relevant = TRUE
         /\ normalizedAlertLocation # normalizedUserLocation
         /\ ~containsNationalTerm(normalizedAlertLocation)
         /\ ~\E i \in 1..Len(locationMap) :
               /\ normalizedUserLocation = locationMap[i].area
               /\ containsNearbyOf(normalizedAlertLocation, locationMap[i]) )
         => /\ Len(normalizedUserLocation) > 3
            /\ includes(normalizedAlertLocation, normalizedUserLocation)

\* A three-character user location inside a longer alert location.
C10_Witness ==
  /\ impl # "none"
  /\ userLocation = locLod
  /\ alertLocation = locLodPort
  /\ Len(normalizedUserLocation) = 3
  /\ includes(normalizedAlertLocation, normalizedUserLocation)
  /\ relevant = FALSE

(***************************************************************************)
(* Calls of normalizeLocation                                              *)
(***************************************************************************)

\* The code units of the dash class of the normalizer.
DashVariants ==
  (8208..8213) \cup {8722, 9135, 65112, 65293, 45, 1470}

\* "תל"
telWord ==
  <<1514,1500>>

\* "אביב"
avivWord ==
  <<1488,1489,1497,1489>>

\* "תל  אביב" (two spaces)
locTelAvivWide ==
  <<1514,1500,32,32,1488,1489,1497,1489>>

\* "רמת  גן" (two spaces)
locRamatGanWide ==
  <<1512,1502,1514,32,32,1490,1503>>

\* "באר–שבע" (en dash)
locBeerShevaDash ==
  <<1489,1488,1512,8211,1513,1489,1506>>

\* "Tel Aviv"
locTelAvivLatin ==
  <<84,101,108,32,65,118,105,118>>

\* "תל" and "אביב" joined by each character of the dash class.
TelAvivDashed == { telWord \o <<c>> \o avivWord : c \in DashVariants }

NormCores ==
  { <<>>, unknownLocation, haifa, locHaifaLatin, locTelAvivLatin,
    telAviv, telAvivQuoted, telAvivYafo, locTelAvivWide,
    locRamatGanWide, locBeerShevaDash, locCenterTelAviv, locMaaleNearTelAviv }
  \cup TelAvivDashed

\* Whitespace put before and after a location: nothing, a space, a tab and a
\* space; nothing, two spaces.
LeadingPads == { <<>>, <<32>>, <<9, 32>> }
TrailingPads == { <<>>, <<32, 32>> }

NormInputs ==
  { lead \o core \o trail :
      lead \in LeadingPads, core \in NormCores, trail \in TrailingPads }

InitNorm ==
  /\ rawLocation \in NormInputs
  /\ normImpl = "none"
  /\ normResult = <<>>
  /\ DedupIdle
  /\ LocIdle
  /\ SimIdle
  /\ ClassIdle
  /\ HandlerIdle
  /\ PushIdle
  /\ ClientIdle
  /\ HookIdle

\* A call of normalizeLocation of location-utils.ts.
CallNormalizeLocation ==
  /\ normImpl = "none"
  /\ normImpl' = "server"
  /\ normResult' = normalizeLocation(rawLocation)
  /\ UNCHANGED <<rawLocation, dedupVars, locVars, simVars, classVars, handlerVars, pushVars, clientVars, hookVars>>

\* A call of normalizeLocation of use-central-alerts.tsx.
CallNormalizeLocation_client ==
  /\ normImpl = "none"
  /\ normImpl' = "client"
  /\ normResult' = normalizeLocation_client(rawLocation)
  /\ UNCHANGED <<rawLocation, dedupVars, locVars, simVars, classVars, handlerVars, pushVars, clientVars, hookVars>>

\* A call of normalizeLocation of index.ts.
CallNormalizeLocation_index ==
  /\ normImpl = "none"
  /\ normImpl' = "index"
  /\ normResult' = normalizeLocation_index(rawLocation)
  /\ UNCHANGED <<rawLocation, dedupVars, locVars, simVars, classVars, handlerVars, pushVars, clientVars, hookVars>>

NextNorm ==
  \/ CallNormalizeLocation
  \/ CallNormalizeLocation_client
  \/ CallNormalizeLocation_index

SpecNorm == InitNorm /\ [][NextNorm]_vars

(***************************************************************************)
(* Claims about normalizeLocation                                          *)
(***************************************************************************)

\* The copy that ran, applied to another string.
normalizeLocationOf(i, str) ==
  CASE i = "server" -> normalizeLocation(str)
    [] i = "client" -> normalizeLocation_client(str)
    [] i = "index" -> normalizeLocation_index(str)

\* C11: normalizeLocation applied to its own result returns that result, for
\* every copy of the function.
C11_NormalizeIdempotent ==
  normImpl # "none" => normalizeLocationOf(normImpl, normResult) = normResult

\* An input with whitespace around it, a dash variant and the alias folding.
C11_Witness ==
  /\ normImpl # "none"
  /\ rawLocation = <<9, 32>> \o telWord \o <<1470>> \o avivWord \o <<32, 32>>
  /\ normResult = telAvivYafo

\* An input that is not folded: trimmed, dash replaced.
C11_WitnessPlain ==
  /\ normImpl # "none"
  /\ rawLocation = <<9, 32>> \o locBeerShevaDash
  /\ normResult = <<1489,1488,1512,45,1513,1489,1506>>

\* The trimmed, lowercased, dash- and whitespace-normalized form of a string.
beforeFolding(str) ==
  collapseWhitespace(replaceDashes(toLowerCase(trim(str))))

\* C12: "תל אביב", the quoted abbreviation and "תל-אביב" written with any dash
\* of the class normalize to exactly "תל אביב-יפו", and so does every input whose
\* trimmed, lowercased, dash- and whitespace-normalized form contains one of the
\* three spellings.
C12_AliasFolding ==
  normImpl # "none" =>
    /\ rawLocation \in {telAviv, telAvivQuoted, telAvivHyphen} \cup TelAvivDashed
         => normResult = telAvivYafo
    /\ ( \/ includes(beforeFolding(rawLocation), telAviv)
         \/ includes(beforeFolding(rawLocation), telAvivQuoted)
         \/ includes(beforeFolding(rawLocation), telAvivHyphen) )
         => normResult = telAvivYafo

\* The spelling with the Hebrew maqaf, inside other text, folds to the anchor.
C12_Witness ==
  /\ normImpl = "server"
  /\ rawLocation = telWord \o <<1470>> \o avivWord
  /\ normResult = telAvivYafo

\* Other text beside the spelling is discarded.
C12_WitnessDiscard ==
  /\ normImpl = "server"
  /\ rawLocation = locMaaleNearTelAviv
  /\ normResult = telAvivYafo

(***************************************************************************)
(* Calls of the similarity scorers                                         *)
(***************************************************************************)

\* "!!!"
textPunctuation ==
  <<33,33,33>>

\* "Go up"
textShortWords ==
  <<71,111,32,117,112>>

\* "abc abc xyz"
textRepeat ==
  <<97,98,99,32,97,98,99,32,120,121,122>>

\* "abc def ghi"
textOnce ==
  <<97,98,99,32,100,101,102,32,103,104,105>>

TextPool ==
  { <<>>, <<32>>, textPunctuation, textShortWords, textRepeat, textOnce,
    titleRocket, titleRocketBang, titleRocketSwapped, titleRocketPort,
    titleSirens, descShort, descLong }

InitSim ==
  /\ text1 \in TextPool
  /\ text2 \in TextPool
  /\ scorer = "none"
  /\ similarity = ratio(0, 1)
  /\ DedupIdle
  /\ LocIdle
  /\ NormIdle
  /\ ClassIdle
  /\ HandlerIdle
  /\ PushIdle
  /\ ClientIdle
  /\ HookIdle

\* A call of calculateTitleSimilarity of part_000.
CallCalculateTitleSimilarity_part000 ==
  /\ scorer = "none"
  /\ scorer' = "title_part000"
  /\ similarity' = calculateTitleSimilarity_part000(text1, text2)
  /\ UNCHANGED <<text1, text2, dedupVars, locVars, normVars, classVars, handlerVars, pushVars, clientVars, hookVars>>

\* A call of calculateContentSimilarity of part_000.
CallCalculateContentSimilarity ==
  /\ scorer = "none"
  /\ scorer' = "content_part000"
  /\ similarity' = calculateContentSimilarity(text1, text2)
  /\ UNCHANGED <<text1, text2, dedupVars, locVars, normVars, classVars, handlerVars, pushVars, clientVars, hookVars>>

\* A call of calculateTitleSimilarity of part_001.
CallCalculateTitleSimilarity_part001 ==
  /\ scorer = "none"
  /\ scorer' = "title_part001"
  /\ similarity' = calculateTitleSimilarity_part001(text1, text2)
  /\ UNCHANGED <<text1, text2, dedupVars, locVars, normVars, classVars, handlerVars, pushVars, clientVars, hookVars>>

\* A call of calculateTitleSimilarity of deduplication.ts.
CallCalculateTitleSimilarity_dedup ==
  /\ scorer = "none"
  /\ scorer' = "title_dedup"
  /\ similarity' = calculateTitleSimilarity_dedup(text1, text2)
  /\ UNCHANGED <<text1, text2, dedupVars, locVars, normVars, classVars, handlerVars, pushVars, clientVars, hookVars>>

NextSim ==
  \/ CallCalculateTitleSimilarity_part000
  \/ CallCalculateContentSimilarity
  \/ CallCalculateTitleSimilarity_part001
  \/ CallCalculateTitleSimilarity_dedup

SpecSim == InitSim /\ [][NextSim]_vars

(***************************************************************************)
(* Claims about the similarity scorers                                     *)
(***************************************************************************)

\* The score is exactly p/q.
scoreIs(p, q) == similarity.n * q = p * similarity.d

\* C13: calculateTitleSimilarity(a, a) is 1.0 for every non-empty title a, in
\* deduplication.ts, part_001 and part_000.
C13_SelfSimilarityIsOne ==
  ( /\ scorer \in {"title_part000", "title_part001", "title_dedup"}
    /\ text1 = text2
    /\ text1 # <<>> )
  => scoreIs(1, 1)

\* The revisions that compare the normalized strings first score a non-empty
\* title against itself as 1.0.
C13_NormalizingRevisionsScoreOne ==
  ( /\ scorer \in {"title_part000", "title_part001"}
    /\ text1 = text2
    /\ text1 # <<>> )
  => scoreIs(1, 1)

\* C14 as stated: the scorers of part_000 return 0.0 when either argument is
\* the empty string, for every other argument.
C14_EmptyArgumentScoresZero ==
  ( /\ scorer \in {"title_part000", "content_part000"}
    /\ (text1 = <<>> \/ text2 = <<>>) )
  => scoreIs(0, 1)

\* C14: when either argument is the empty string, calculateContentSimilarity
\* returns 0.0, and calculateTitleSimilarity returns 0.0 unless the other
\* argument also normalizes to the empty string, in which case the normalized
\* strings are identical and it returns 1.0.
C14_EmptyArgumentScoresZeroUnlessBothEmpty ==
  /\ ( /\ scorer = "content_part000"
       /\ (text1 = <<>> \/ text2 = <<>>) )
     => scoreIs(0, 1)
  /\ ( /\ scorer = "title_part000"
       /\ (text1 = <<>> \/ text2 = <<>>) )
     => IF normalize_part000(text1) = normalize_part000(text2)
        THEN scoreIs(1, 1)
        ELSE scoreIs(0, 1)

\* An empty title scored against a title with words.
C14_Witness ==
  /\ scorer = "title_part000"
  /\ text1 = <<>>
  /\ text2 = titleRocket
  /\ scoreIs(0, 1)

\* An empty title scored against punctuation only.
C14_WitnessBothEmpty ==
  /\ scorer = "title_part000"
  /\ text1 = <<>>
  /\ text2 = textPunctuation
  /\ scoreIs(1, 1)

\* Two empty descriptions.
C14_WitnessContent ==
  /\ scorer = "content_part000"
  /\ text1 = <<>>
  /\ text2 = <<>>
  /\ scoreIs(0, 1)

\* C15: the Jaccard title scorer gives the same score with its arguments
\* swapped, and a score between 0.0 and 1.0.
C15_JaccardSymmetricAndBounded ==
  scorer = "title_part000" =>
    LET swapped == calculateTitleSimilarity_part000(text2, text1)
    IN  /\ similarity.n * swapped.d = swapped.n * similarity.d
        /\ similarity.d > 0
        /\ 0 <= similarity.n
        /\ similarity.n <= similarity.d

\* Titles of three and four words with three in common: 3/4 both ways.
C15_Witness ==
  /\ scorer = "title_part000"
  /\ text1 = titleRocket
  /\ text2 = titleRocketPort
  /\ scoreIs(3, 4)

\* The words a containment scorer counts, for each argument.
tokensOf(i, text) ==
  IF i = "content_part000"
  THEN longerThan(splitWhitespace(normalize_part000(text)), 2)
  ELSE longerThan(splitSpace(text), 2)

\* The call reaches the ratio of a containment scorer.
reachesContainmentRatio ==
  /\ scorer \in {"content_part000", "title_dedup"}
  /\ Len(tokensOf(scorer, text1)) > 0
  /\ Len(tokensOf(scorer, text2)) > 0
  /\ scorer = "content_part000" =>
       normalize_part000(text1) # normalize_part000(text2)

\* C16: in the containment scorers the score is the number of distinct common
\* words over the longer word count: a word repeated in the first text counts
\* once.
C16_RepeatedWordCountsOnce ==
  reachesContainmentRatio =>
    scoreIs(Cardinality(toSet(tokensOf(scorer, text1))
                          \cap toSet(tokensOf(scorer, text2))),
            max(Len(tokensOf(scorer, text1)), Len(tokensOf(scorer, text2))))

\* What the code computes: every occurrence in the first text of a word of the
\* second text is counted.
C16_EveryOccurrenceCounts ==
  reachesContainmentRatio =>
    scoreIs(commonCount(tokensOf(scorer, text1), tokensOf(scorer, text2)),
            max(Len(tokensOf(scorer, text1)), Len(tokensOf(scorer, text2))))

(***************************************************************************)
(* Classification, process-alerts-centrally/rss-fetcher.ts and index.ts    *)
(***************************************************************************)

\* rss-fetcher.ts:240-244: אזעקה, פיגוע, ירי, טיל, רקטה, פצועים, הרוגים, טרור, חמאס, חיזבאללה, ג'יהאד, דאעש, חדירה, צבע אדום, צה"ל, פיצוץ, התקפה, נפגעים, מבצע, כוחות, צבא, שיגור, יירוט
securityKeywords ==
  << <<1488,1494,1506,1511,1492>>,
     <<1508,1497,1490,1493,1506>>,
     <<1497,1512,1497>>,
     <<1496,1497,1500>>,
     <<1512,1511,1496,1492>>,
     <<1508,1510,1493,1506,1497,1501>>,
     <<1492,1512,1493,1490,1497,1501>>,
     <<1496,1512,1493,1512>>,
     <<1495,1502,1488,1505>>,
     <<1495,1497,1494,1489,1488,1500,1500,1492>>,
     <<1490,39,1497,1492,1488,1491>>,
     <<1491,1488,1506,1513>>,
     <<1495,1491,1497,1512,1492>>,
     <<1510,1489,1506,32,1488,1491,1493,1501>>,
     <<1510,1492,34,1500>>,
     <<1508,1497,1510,1493,1509>>,
     <<1492,1514,1511,1508,1492>>,
     <<1504,1508,1490,1506,1497,1501>>,
     <<1502,1489,1510,1506>>,
     <<1499,1493,1495,1493,1514>>,
     <<1510,1489,1488>>,
     <<1513,1497,1490,1493,1512>>,
     <<1497,1497,1512,1493,1496>> >>

\* rss-fetcher.ts:251-256: תל אביב, ירושלים, חיפה, באר שבע, אשדוד, אשקלון, רמת גן, חדרה, נתניה, אילת, עזה, לבנון, הגליל, הנגב, ראשון לציון, פתח תקווה, חולון, בת ים, בני ברק, רמלה, כפר סבא, הרצליה, גבעתיים, קריית אונו
cityNames ==
  << <<1514,1500,32,1488,1489,1497,1489>>,
     <<1497,1512,1493,1513,1500,1497,1501>>,
     <<1495,1497,1508,1492>>,
     <<1489,1488,1512,32,1513,1489,1506>>,
     <<1488,1513,1491,1493,1491>>,
     <<1488,1513,1511,1500,1493,1503>>,
     <<1512,1502,1514,32,1490,1503>>,
     <<1495,1491,1512,1492>>,
     <<1504,1514,1504,1497,1492>>,
     <<1488,1497,1500,1514>>,
     <<1506,1494,1492>>,
     <<1500,1489,1504,1493,1503>>,
     <<1492,1490,1500,1497,1500>>,
     <<1492,1504,1490,1489>>,
     <<1512,1488,1513,1493,1503,32,1500,1510,1497,1493,1503>>,
     <<1508,1514,1495,32,1514,1511,1493,1493,1492>>,
     <<1495,1493,1500,1493,1503>>,
     <<1489,1514,32,1497,1501>>,
     <<1489,1504,1497,32,1489,1512,1511>>,
     <<1512,1502,1500,1492>>,
     <<1499,1508,1512,32,1505,1489,1488>>,
     <<1492,1512,1510,1500,1497,1492>>,
     <<1490,1489,1506,1514,1497,1497,1501>>,
     <<1511,1512,1497,1497,1514,32,1488,1493,1504,1493>> >>

\* rss-fetcher.ts:369-372: אזעקה, פיגוע, ירי, טיל, רקטה, פצועים, הרוגים, טרור, חמאס, חיזבאללה, ג'יהאד, דאעש, חדירה, צבע אדום, צה"ל
securityKeywords_first ==
  << <<1488,1494,1506,1511,1492>>,
     <<1508,1497,1490,1493,1506>>,
     <<1497,1512,1497>>,
     <<1496,1497,1500>>,
     <<1512,1511,1496,1492>>,
     <<1508,1510,1493,1506,1497,1501>>,
     <<1492,1512,1493,1490,1497,1501>>,
     <<1496,1512,1493,1512>>,
     <<1495,1502,1488,1505>>,
     <<1495,1497,1494,1489,1488,1500,1500,1492>>,
     <<1490,39,1497,1492,1488,1491>>,
     <<1491,1488,1506,1513>>,
     <<1495,1491,1497,1512,1492>>,
     <<1510,1489,1506,32,1488,1491,1493,1501>>,
     <<1510,1492,34,1500>> >>

\* rss-fetcher.ts:379-382: תל אביב, ירושלים, חיפה, באר שבע, אשדוד, אשקלון, רמת גן, חדרה, נתניה, אילת, עזה, לבנון, הגליל, הנגב
cityNames_first ==
  << <<1514,1500,32,1488,1489,1497,1489>>,
     <<1497,1512,1493,1513,1500,1497,1501>>,
     <<1495,1497,1508,1492>>,
     <<1489,1488,1512,32,1513,1489,1506>>,
     <<1488,1513,1491,1493,1491>>,
     <<1488,1513,1511,1500,1493,1503>>,
     <<1512,1502,1514,32,1490,1503>>,
     <<1495,1491,1512,1492>>,
     <<1504,1514,1504,1497,1492>>,
     <<1488,1497,1500,1514>>,
     <<1506,1494,1492>>,
     <<1500,1489,1504,1493,1503>>,
     <<1492,1490,1500,1497,1500>>,
     <<1492,1504,1490,1489>> >>

\* "null"
textNull ==
  <<110,117,108,108>>

\* "ירי רקטות לעבר חיפה"
titleRocketsHaifa ==
  <<1497,1512,1497,32,1512,1511,1496,1493,1514,32,1500,1506,1489,1512,32,1495,1497,1508,1492>>

\* "מזג האוויר מחר"
titleWeather ==
  <<1502,1494,1490,32,1492,1488,1493,1493,1497,1512,32,1502,1495,1512>>

\* "פיצוץ בחולון"
titleBlastHolon ==
  <<1508,1497,1510,1493,1509,32,1489,1495,1493,1500,1493,1503>>

\* "אין פרטים נוספים"
descNoDetails ==
  <<1488,1497,1503,32,1508,1512,1496,1497,1501,32,1504,1493,1505,1508,1497,1501>>

\* "גשם בצפון"
descRain ==
  <<1490,1513,1501,32,1489,1510,1508,1493,1503>>

\* `${item.title} ${item.description}`.toLowerCase()
fullTextOf(it) == toLowerCase(it.title \o <<32>> \o it.description)

\* securityKeywords.some(keyword => fullText.includes(keyword.toLowerCase()))
someKeyword(keywords, fullText) ==
  \E i \in 1..Len(keywords) : includes(fullText, toLowerCase(keywords[i]))

\* The loop over cityNames: the first city the text includes, else "לא ידוע".
firstCity(cities, fullText) ==
  LET hits == {i \in 1..Len(cities) : includes(fullText, toLowerCase(cities[i]))}
  IN  IF hits = {} THEN unknownLocation
      ELSE cities[CHOOSE i \in hits : \A j \in hits : i <= j]

\* rss-fetcher.ts:236-277.
createAlertFromKeywords(it) ==
  makeAlert(it.title, it.description,
            jsString(firstCity(cityNames, fullTextOf(it))),
            it.pubDate, it.link,
            someKeyword(securityKeywords, fullTextOf(it)))

\* rss-fetcher.ts:367-401.
createAlertFromKeywords_first(it) ==
  makeAlert(it.title, it.description,
            jsString(firstCity(cityNames_first, fullTextOf(it))),
            it.pubDate, it.link,
            someKeyword(securityKeywords_first, fullTextOf(it)))

\* index.ts:361-395, with the lists of index.ts:363-366 and 373-376, which are
\* those of rss-fetcher.ts:369-372 and 379-382.
createAlertFromKeywords_index(it) ==
  makeAlert(it.title, it.description,
            jsString(firstCity(cityNames_first, fullTextOf(it))),
            it.pubDate, it.link,
            someKeyword(securityKeywords_first, fullTextOf(it)))

\* A value computed inside a try block, or an exception thrown there.
returns(value) == [threw |-> FALSE, value |-> value]
throws == [threw |-> TRUE, value |-> noAlert]

\* JSON.parse(aiResponse), rss-fetcher.ts:348 and index.ts:342: the text must
\* be JSON and nothing else.
parseThrows_first(env) ==
  \/ env.wrapper # "plain"
  \/ env.json.kind = "invalid"

\* rss-fetcher.ts:185-207: the text between ```json fences, or from the first
\* "{" to the last "}", is what JSON.parse is given; text with neither is
\* parsed as it stands.
parseThrows(env) ==
  \/ env.json.kind = "invalid"
  \/ env.json.kind = "null" /\ env.wrapper = "prose"

\* !value
falsy(v) ==
  \/ v.kind \in {"null", "undefined"}
  \/ v.kind = "string" /\ v.value = <<>>

\* The try block of rss-fetcher.ts:154-228.
tryClassify(it, env) ==
  IF env.http # "ok" THEN throws
  ELSE IF parseThrows(env) THEN returns(createAlertFromKeywords(it))
  ELSE IF env.json.kind = "null" THEN throws
  ELSE IF env.json.is_security_event \notin {"true", "false"}
    THEN returns(createAlertFromKeywords(it))
  ELSE returns(makeAlert(it.title, it.description,
                 IF env.json.location = jsString(textNull) \/ falsy(env.json.location)
                 THEN jsString(unknownLocation)
                 ELSE env.json.location,
                 it.pubDate, it.link,
                 env.json.is_security_event = "true"))

\* classifyAlertWithAI, rss-fetcher.ts:124-234.
classifyAlertWithAI(it, env) ==
  IF ~env.apiKey THEN fulfilled(createAlertFromKeywords(it))
  ELSE LET attempt == tryClassify(it, env)
       IN  IF attempt.threw THEN fulfilled(createAlertFromKeywords(it))
           ELSE fulfilled(attempt.value)

\* The try block of rss-fetcher.ts:326-359.
tryClassify_first(it, env) ==
  IF env.http # "ok" THEN throws
  ELSE IF parseThrows_first(env) THEN throws
  ELSE IF env.json.kind = "null" THEN throws
  ELSE returns(makeAlert(it.title, it.description,
                 IF env.json.location = jsString(textNull)
                 THEN jsString(unknownLocation)
                 ELSE env.json.location,
                 it.pubDate, it.link,
                 env.json.is_security_event = "true"))

\* A classifier whose exceptions reject its promise.
classifyAlertWithAI_uncaught(it, env) ==
  LET attempt == tryClassify_first(it, env)
  IN  IF attempt.threw THEN rejected ELSE fulfilled(attempt.value)

\* classifyAlertWithAI, rss-fetcher.ts:302-365.
classifyAlertWithAI_first(it, env) ==
  LET attempt == tryClassify_first(it, env)
  IN  IF attempt.threw THEN fulfilled(createAlertFromKeywords_first(it))
      ELSE fulfilled(attempt.value)

\* classifyAlertWithAI, index.ts:296-359: the same statements as
\* rss-fetcher.ts:302-365.
classifyAlertWithAI_index(it, env) ==
  LET attempt == tryClassify_first(it, env)
  IN  IF attempt.threw THEN fulfilled(createAlertFromKeywords_index(it))
      ELSE fulfilled(attempt.value)

(***************************************************************************)
(* Calls of classifyAlertWithAI                                            *)
(***************************************************************************)

itemRockets ==
  rssItem(titleRocketsHaifa, descNoDetails, "L1", "2025-06-01T10:00:00.000Z")

itemWeather ==
  rssItem(titleWeather, descRain, "L2", "2025-06-01T11:00:00.000Z")

itemBlast ==
  rssItem(titleBlastHolon, descNoDetails, "L3", "2025-06-01T12:00:00.000Z")

ClassItems == { itemRockets, itemWeather, itemBlast }

\* The location member of the AI's JSON: the string "null", JSON null, the
\* empty string, no member, a place name.
LocationMembers ==
  { jsString(textNull), jsNull, jsString(<<>>), jsUndefined, jsString(haifa) }

\* The is_security_event member: a boolean, another type, no member.
SecurityMembers == { "true", "false", "string", "missing" }

JsonPool ==
  { jsonInvalid, jsonNull }
  \cup { jsonObject(s, l) : s \in SecurityMembers, l \in LocationMembers }

\* The response text is the JSON alone, inside ```json fences, or inside a
\* sentence.
Wrappers == { "plain", "fencedJson", "prose" }

\* The HTTP call rejects, answers with a non-OK status, answers with a body
\* that has no choices[0].message.content, or answers with the AI's text.
\* Without an API key the request is not answered with a completion.
Environments ==
  { environment(TRUE, "ok", w, j) : w \in Wrappers, j \in JsonPool }
  \cup { environment(TRUE, h, "plain", jsonInvalid) :
           h \in {"networkError", "notOk", "badBody"} }
  \cup { environment(FALSE, h, "plain", jsonInvalid) :
           h \in {"networkError", "notOk"} }

InitClassify ==
  /\ classItem \in ClassItems
  /\ aiEnv \in Environments
  /\ classifier = "none"
  /\ outcome = pending
  /\ DedupIdle
  /\ LocIdle
  /\ NormIdle
  /\ SimIdle
  /\ HandlerIdle
  /\ PushIdle
  /\ ClientIdle
  /\ HookIdle

\* A call of classifyAlertWithAI of rss-fetcher.ts:124.
CallClassifyAlertWithAI ==
  /\ classifier = "none"
  /\ classifier' = "guarded"
  /\ outcome' = classifyAlertWithAI(classItem, aiEnv)
  /\ UNCHANGED <<classItem, aiEnv, dedupVars, locVars, normVars, simVars, handlerVars, pushVars, clientVars, hookVars>>

\* A call of classifyAlertWithAI of rss-fetcher.ts:302.
CallClassifyAlertWithAI_first ==
  /\ classifier = "none"
  /\ classifier' = "first"
  /\ outcome' = classifyAlertWithAI_first(classItem, aiEnv)
  /\ UNCHANGED <<classItem, aiEnv, dedupVars, locVars, normVars, simVars, handlerVars, pushVars, clientVars, hookVars>>

\* A call of classifyAlertWithAI of index.ts:296.
CallClassifyAlertWithAI_index ==
  /\ classifier = "none"
  /\ classifier' = "index"
  /\ outcome' = classifyAlertWithAI_index(classItem, aiEnv)
  /\ UNCHANGED <<classItem, aiEnv, dedupVars, locVars, normVars, simVars, handlerVars, pushVars, clientVars, hookVars>>

NextClassify ==
  \/ CallClassifyAlertWithAI
  \/ CallClassifyAlertWithAI_first
  \/ CallClassifyAlertWithAI_index

SpecClassify == InitClassify /\ [][NextClassify]_vars

(***************************************************************************)
(* Claims about classifyAlertWithAI                                        *)
(***************************************************************************)

\* createAlertFromKeywords of the file of the copy that ran.
keywordAlert ==
  CASE classifier = "guarded" -> createAlertFromKeywords(classItem)
    [] classifier = "first" -> createAlertFromKeywords_first(classItem)
    [] classifier = "index" -> createAlertFromKeywords_index(classItem)

\* The copy that ran could not parse the response text as JSON.
responseNotParsed ==
  /\ aiEnv.http = "ok"
  /\ IF classifier = "guarded" THEN parseThrows(aiEnv)
     ELSE parseThrows_first(aiEnv)

\* C17: classifyAlertWithAI never rejects, and when the API key is missing, the
\* HTTP call fails or is not OK, or the response is not parsed as JSON, its
\* result is the alert createAlertFromKeywords builds for the same item.
C17_FailureFallsBackToKeywords ==
  classifier # "none" =>
    /\ outcome.status = "fulfilled"
    /\ (~aiEnv.apiKey \/ aiEnv.http # "ok" \/ responseNotParsed) =>
         /\ outcome.value = keywordAlert
         /\ outcome.value.title = classItem.title
         /\ outcome.value.description = classItem.description
         /\ outcome.value.link = classItem.link
         /\ outcome.value.timestamp = classItem.pubDate

\* The first revision given a fenced response that says "not a security
\* event": JSON.parse throws and the keywords decide.
C17_Witness ==
  /\ classifier = "first"
  /\ classItem.title = titleRocketsHaifa
  /\ aiEnv.wrapper = "fencedJson"
  /\ aiEnv.json = jsonObject("false", jsNull)
  /\ outcome.status = "fulfilled"
  /\ outcome.value.is_security_event
  /\ outcome.value.location = jsString(haifa)

\* The guarded revision without an API key.
C17_WitnessNoKey ==
  /\ classifier = "guarded"
  /\ ~aiEnv.apiKey
  /\ classItem.title = titleBlastHolon
  /\ outcome.value.is_security_event
  /\ outcome.value.location = jsString(holon)

\* C18: every alert classifyAlertWithAI returns has a location that is a
\* non-empty string; never null, undefined or the empty string.
C18_LocationNeverEmpty ==
  classifier # "none" =>
    /\ outcome.value.location.kind = "string"
    /\ outcome.value.location.value # <<>>

\* The revision of rss-fetcher.ts:124 replaces every falsy location by the
\* sentinel.
C18_GuardedLocationNeverEmpty ==
  classifier = "guarded" =>
    /\ outcome.value.location.kind = "string"
    /\ outcome.value.location.value # <<>>

\* The other two copies return the location member as the AI gave it, unless
\* it is the string "null".
C18_UnguardedLocationAsGiven ==
  ( /\ classifier \in {"first", "index"}
    /\ aiEnv.http = "ok"
    /\ ~parseThrows_first(aiEnv)
    /\ aiEnv.json.kind = "object" )
  => outcome.value.location =
       IF aiEnv.json.location = jsString(textNull)
       THEN jsString(unknownLocation)
       ELSE aiEnv.json.location

(***************************************************************************)
(* The serve handler of process-alerts-centrally, index.ts and part_001    *)
(***************************************************************************)

\* An RSS source: how fetching it ends and the items its feed holds.
feed(kind, feedItems) == [kind |-> kind, items |-> feedItems]

\* fetchRssFeed, index.ts:211-233: every failure is caught and gives [].
fetchRssFeed_index(source) ==
  IF source.kind = "ok" THEN [status |-> "fulfilled", value |-> source.items]
  ELSE [status |-> "fulfilled", value |-> <<>>]

\* fetchRssFeed, rss-fetcher.ts:4-27: a rejected fetch or a non-OK status is
\* logged and thrown again; a text without items parses to [].
fetchRssFeed(source) ==
  IF source.kind = "ok" THEN [status |-> "fulfilled", value |-> source.items]
  ELSE IF source.kind = "malformed" THEN [status |-> "fulfilled", value |-> <<>>]
  ELSE [status |-> "rejected", value |-> <<>>]

RECURSIVE concatFulfilled(_)
\* allItems.push(...result.value) for each fulfilled result, in order.
concatFulfilled(results) ==
  IF results = <<>> THEN <<>>
  ELSE (IF Head(results).status = "fulfilled" THEN Head(results).value ELSE <<>>)
       \o concatFulfilled(Tail(results))

\* A collection that throws as soon as one source fails.
collectItems_failFast(sources) ==
  [threw |-> \E i \in 1..Len(sources) : sources[i].kind # "ok",
   items |-> concatFulfilled([i \in 1..Len(sources) |-> fetchRssFeed(sources[i])])]

\* index.ts:61-73: Promise.allSettled, then the fulfilled results are collected.
collectItems(sources) ==
  [threw |-> FALSE,
   items |-> concatFulfilled(
               [i \in 1..Len(sources) |-> fetchRssFeed_index(sources[i])])]

\* part_001:146-173: each fetch has its own try/catch, which turns a rejection
\* into a result with an error and no items; results with an error are skipped.
collectItems_part001(sources) ==
  [threw |-> FALSE,
   items |-> concatFulfilled(
               [i \in 1..Len(sources) |-> fetchRssFeed(sources[i])])]

\* index.ts:123-133: the alerts of the fulfilled classifications that are
\* security events.
keepSecurityEvents(batch, env) ==
  LET results == [i \in 1..Len(batch) |-> classifyAlertWithAI_index(batch[i], env)]
      kept == SelectSeq(results,
                LAMBDA r : r.status = "fulfilled" /\ r.value.is_security_event)
  IN  [i \in 1..Len(kept) |-> kept[i].value]

\* part_001:228-251: each classification is wrapped as {status, value} by the
\* handler and then again by Promise.allSettled, so result.value is the wrapper
\* and result.value.is_security_event is read from the wrapper.
keepSecurityEvents_part001(batch, env) ==
  LET wrappers == [i \in 1..Len(batch) |->
                     [status |-> "fulfilled",
                      value |-> classifyAlertWithAI(batch[i], env)]]
      results == [i \in 1..Len(batch) |->
                     [status |-> "fulfilled", value |-> wrappers[i]]]
      kept == SelectSeq(results,
                LAMBDA r : /\ r.status = "fulfilled"
                           /\ "is_security_event" \in DOMAIN r.value
                           /\ r.value.is_security_event)
  IN  [i \in 1..Len(kept) |-> kept[i].value]

\* The rows of the profiles table that have an FCM token.
Users ==
  << [id |-> "u1", location |-> haifa],
     [id |-> "u2", location |-> telAviv],
     [id |-> "u3", location |-> <<>>] >>

\* isLocationRelevant(alert.location, user.location || ""): a null or undefined
\* alert location is falsy, index.ts:459.
relevantTo(alert, user) ==
  /\ alert.location.kind = "string"
  /\ isLocationRelevant(alert.location.value, user.location)

\* The try block of index.ts:415-452: the notifications sent, or an exception.
\* An invocation that throws is caught at index.ts:448.
tryPush(alerts, env) ==
  IF env.users = "throws" THEN [threw |-> TRUE, notified |-> {}]
  ELSE IF env.users \in {"error", "empty"} THEN [threw |-> FALSE, notified |-> {}]
  ELSE [threw |-> FALSE,
        notified |->
          IF env.invoke = "throws" THEN {}
          ELSE { <<alerts[pair[1]].link, Users[pair[2]].id>> :
                   pair \in { q \in (1..Len(alerts)) \X (1..Len(Users)) :
                                relevantTo(alerts[q[1]], Users[q[2]]) } }]

\* A sendPushNotifications that lets its exceptions out.
sendPushNotifications_uncaught(alerts, env) ==
  [threw |-> env.users = "throws" \/ (env.users = "ok" /\ env.invoke = "throws"),
   notified |-> tryPush(alerts, env).notified]

\* sendPushNotifications, index.ts:414-456 and rss-fetcher.ts:429-471: the catch
\* at the end logs the exception.
sendPushNotifications(alerts, env) ==
  [threw |-> FALSE, notified |-> tryPush(alerts, env).notified]

(***************************************************************************)
(* Runs of the serve handler                                               *)
(***************************************************************************)

MaxSources == 2

FeedPool ==
  { feed("ok", <<itemRockets>>),
    feed("ok", <<itemWeather, itemBlast>>),
    feed("networkError", <<>>),
    feed("notOk", <<>>),
    feed("malformed", <<>>) }

\* The rows of rss_sources: up to MaxSources sources.
SourceLists ==
  UNION { [1..n -> FeedPool] : n \in 0..MaxSources }

\* The alerts of the last 24 hours: none, or the rocket alert.
HandlerExisting ==
  { [links |-> {}, titles |-> {}],
    [links |-> {"L1"}, titles |-> {titleRocketsHaifa}] }

\* The AI during one run: it answers with a place, with a null location, with
\* "not a security event", or the call fails.
HandlerEnvironments ==
  { environment(TRUE, "ok", "plain", jsonObject("true", jsString(haifa))),
    environment(TRUE, "ok", "plain", jsonObject("true", jsNull)),
    environment(TRUE, "ok", "plain", jsonObject("false", jsNull)),
    environment(TRUE, "networkError", "plain", jsonInvalid) }

PushEnvironments ==
  { pushEnvironment(u, i) :
      u \in {"ok", "error", "empty", "throws"}, i \in {"ok", "throws"} }

\* The bodies the function is invoked with: the scheduled run sends none,
\* SystemHealthButton.tsx:23-25 sends {health_check: true}.
RequestBodies == {"empty", "health_check"}

InitHandler ==
  /\ handler \in {"index", "part_001"}
  /\ requestBody \in RequestBodies
  /\ pc = "start"
  /\ feeds = <<>>
  /\ allItems = <<>>
  /\ newItems = <<>>
  /\ classifyCalls = <<>>
  /\ classifyEnv = noEnv
  /\ classifiedAlerts = <<>>
  /\ insertedAlerts = <<>>
  /\ pushEnv = noPush
  /\ notified = {}
  /\ response = noResponse
  /\ DedupIdle
  /\ LocIdle
  /\ NormIdle
  /\ SimIdle
  /\ ClassIdle
  /\ PushIdle
  /\ ClientIdle
  /\ HookIdle

otherVars == <<dedupVars, locVars, normVars, simVars, classVars>>

\* index.ts:46-58, part_001:120-143: the rss_sources query. An error is thrown
\* to the handler's catch; part_001 answers at once when there are no sources.
QuerySources ==
  /\ pc = "start"
  /\ \E sourcesError \in BOOLEAN, sources \in SourceLists :
       IF sourcesError
       THEN /\ response' = makeResponse(500, FALSE, 0, "sources query failed")
            /\ pc' = "done"
            /\ feeds' = feeds
       ELSE IF handler = "part_001" /\ Len(sources) = 0
       THEN /\ response' = makeResponse(200, TRUE, 0, "No RSS sources configured")
            /\ pc' = "done"
            /\ feeds' = feeds
       ELSE /\ response' = response
            /\ pc' = "fetch"
            /\ feeds' = sources
  /\ UNCHANGED <<handler, requestBody, classifyEnv, allItems, newItems, classifyCalls, classifiedAlerts,
                 insertedAlerts, pushEnv, notified, otherVars, pushVars, clientVars, hookVars>>

\* index.ts:60-75, part_001:145-190: the feeds are fetched and their items
\* collected.
FetchFeeds ==
  /\ pc = "fetch"
  /\ LET collected == IF handler = "index" THEN collectItems(feeds)
                      ELSE collectItems_part001(feeds)
     IN  IF collected.threw
         THEN /\ response' = makeResponse(500, FALSE, 0, "fetch failed")
              /\ pc' = "done"
              /\ allItems' = allItems
         ELSE IF handler = "part_001" /\ Len(collected.items) = 0
         THEN /\ response' = makeResponse(200, FALSE, 0,
                               "No items could be fetched from RSS feeds")
              /\ pc' = "done"
              /\ allItems' = collected.items
         ELSE /\ response' = response
              /\ pc' = "dedup"
              /\ allItems' = collected.items
  /\ UNCHANGED <<handler, requestBody, classifyEnv, feeds, newItems, classifyCalls, classifiedAlerts,
                 insertedAlerts, pushEnv, notified, otherVars, pushVars, clientVars, hookVars>>

\* index.ts:77-115, part_001:192-215: the stored links and titles are read and
\* the items filtered against them.
Deduplicate ==
  /\ pc = "dedup"
  /\ \E existing \in HandlerExisting :
       LET kept == filterDuplicates_dedup(allItems, existing.links,
                     {toLowerCase(t) : t \in existing.titles})
       IN  /\ newItems' = kept
           /\ IF Len(kept) = 0
              THEN /\ response' = makeResponse(200, TRUE, 0,
                                    "No new alerts to process")
                   /\ pc' = "done"
              ELSE /\ response' = response
                   /\ pc' = "classify"
  /\ UNCHANGED <<handler, requestBody, classifyEnv, feeds, allItems, classifyCalls, classifiedAlerts,
                 insertedAlerts, pushEnv, notified, otherVars, pushVars, clientVars, hookVars>>

\* index.ts:117-151, part_001:217-273: every new item is classified, batch
\* after batch, and the security events are kept.
ClassifyItems ==
  /\ pc = "classify"
  /\ \E env \in HandlerEnvironments :
       LET kept == IF handler = "index" THEN keepSecurityEvents(newItems, env)
                   ELSE keepSecurityEvents_part001(newItems, env)
       IN  /\ classifyCalls' = newItems
           /\ classifyEnv' = env
           /\ classifiedAlerts' = kept
           /\ IF Len(kept) = 0
              THEN /\ response' = makeResponse(200, TRUE, 0,
                                    "No security alerts found")
                   /\ pc' = "done"
              ELSE /\ response' = response
                   /\ pc' = "insert"
  /\ UNCHANGED <<handler, requestBody, feeds, allItems, newItems, insertedAlerts, pushEnv,
                 notified, otherVars, pushVars, clientVars, hookVars>>

InsertAlerts_continuesOnError ==
  /\ pc = "insert"
  /\ \E insertError \in BOOLEAN :
       /\ response' = response
       /\ pc' = "push"
       /\ insertedAlerts' = IF insertError THEN insertedAlerts
                            ELSE classifiedAlerts
  /\ UNCHANGED <<handler, requestBody, classifyEnv, feeds, allItems, newItems, classifyCalls,
                 classifiedAlerts, pushEnv, notified, otherVars, pushVars, clientVars, hookVars>>

\* index.ts:153-174, part_001:275-295: the alerts are inserted; an insert error
\* is thrown to the handler's catch.
InsertAlerts ==
  /\ pc = "insert"
  /\ \E insertError \in BOOLEAN :
       IF insertError
       THEN /\ response' = makeResponse(500, FALSE, 0, "insert failed")
            /\ pc' = "done"
            /\ insertedAlerts' = insertedAlerts
       ELSE /\ response' = response
            /\ pc' = "push"
            /\ insertedAlerts' = classifiedAlerts
  /\ UNCHANGED <<handler, requestBody, classifyEnv, feeds, allItems, newItems, classifyCalls,
                 classifiedAlerts, pushEnv, notified, otherVars, pushVars, clientVars, hookVars>>

\* index.ts:176-177, part_001:298-304: await sendPushNotifications. In part_001
\* the call stands in a try/catch of its own.
SendPushNotifications ==
  /\ pc = "push"
  /\ \E env \in PushEnvironments :
       LET sent == sendPushNotifications(classifiedAlerts, env)
       IN  /\ pushEnv' = env
           /\ notified' = sent.notified
           /\ IF sent.threw /\ handler = "index"
              THEN /\ response' = makeResponse(500, FALSE, 0, "push failed")
                   /\ pc' = "done"
              ELSE /\ response' = response
                   /\ pc' = "respond"
  /\ UNCHANGED <<handler, requestBody, classifyEnv, feeds, allItems, newItems, classifyCalls,
                 classifiedAlerts, insertedAlerts, otherVars, pushVars, clientVars, hookVars>>

\* index.ts:179-185, part_001:308-318: the success response.
Respond ==
  /\ pc = "respond"
  /\ response' = makeResponse(200, TRUE, Len(classifiedAlerts), "Processed")
  /\ pc' = "done"
  /\ UNCHANGED <<handler, requestBody, classifyEnv, feeds, allItems, newItems, classifyCalls,
                 classifiedAlerts, insertedAlerts, pushEnv, notified, otherVars, pushVars, clientVars, hookVars>>

NextHandler ==
  \/ QuerySources
  \/ FetchFeeds
  \/ Deduplicate
  \/ ClassifyItems
  \/ InsertAlerts
  \/ SendPushNotifications
  \/ Respond

SpecHandler == InitHandler /\ [][NextHandler]_vars

(***************************************************************************)
(* Claims about the serve handler                                          *)
(***************************************************************************)

\* Fetching or parsing some source failed in this run.
someSourceFailed == \E i \in 1..Len(feeds) : feeds[i].kind # "ok"

RECURSIVE itemsOfFetched(_)
\* The items of the sources that were fetched successfully, in source order.
itemsOfFetched(sources) ==
  IF sources = <<>> THEN <<>>
  ELSE (IF Head(sources).kind = "ok" THEN Head(sources).items ELSE <<>>)
       \o itemsOfFetched(Tail(sources))

\* The run got past the classification of the new items.
pastClassification ==
  \/ pc \in {"insert", "push", "respond"}
  \/ pc = "done" /\ response.message \in
       {"No security alerts found", "insert failed", "push failed", "Processed"}

\* The run got past deduplication.
pastDeduplication ==
  \/ pc = "classify"
  \/ pc = "done" /\ response.message = "No new alerts to process"
  \/ pastClassification

\* The run got past the fetching of the feeds.
pastFetching ==
  \/ pc = "dedup"
  \/ pc = "done" /\ response.message = "No items could be fetched from RSS feeds"
  \/ pastDeduplication

\* C19: when fetching or parsing a source fails, the items of the sources that
\* were fetched are still collected, deduplicated and classified, and the
\* handler answers 500 only for another reason (the insert failing).
C19_SourceFailureDoesNotStopRun ==
  someSourceFailed =>
    /\ pastFetching => allItems = itemsOfFetched(feeds)
    /\ pastDeduplication =>
         \E existing \in HandlerExisting :
           newItems = filterDuplicates_dedup(allItems, existing.links,
                        {toLowerCase(t) : t \in existing.titles})
    /\ pastClassification => classifyCalls = newItems
    /\ response.status = 500 => response.message = "insert failed"

\* The monolithic handler: the first source fails, the item of the second is
\* inserted and reported.
C19_Witness ==
  /\ handler = "index"
  /\ feeds = <<feed("networkError", <<>>), feed("ok", <<itemRockets>>)>>
  /\ pc = "done"
  /\ insertedAlerts # <<>>
  /\ insertedAlerts[1].link = "L1"
  /\ response = makeResponse(200, TRUE, 1, "Processed")

\* The refactored handler: the second source fails, the items of the first are
\* handed to the classifier.
C19_WitnessRefactored ==
  /\ handler = "part_001"
  /\ feeds = <<feed("ok", <<itemWeather, itemBlast>>), feed("notOk", <<>>)>>
  /\ pc = "done"
  /\ classifyCalls = <<itemWeather, itemBlast>>
  /\ response.status = 200

\* The profiles query failed or threw, or the invocations threw.
pushFailed ==
  \/ pushEnv.users \in {"error", "throws"}
  \/ pushEnv.users = "ok" /\ pushEnv.invoke = "throws"

\* C20: after a push-notification failure the classified alerts are inserted,
\* and the handler answers 200 with success: true and processed equal to the
\* number of classified alerts.
C20_PushFailureKeepsAlerts ==
  pushFailed =>
    /\ insertedAlerts = classifiedAlerts
    /\ Len(insertedAlerts) > 0
    /\ pc \in {"respond", "done"}
    /\ pc = "done" =>
         response = makeResponse(200, TRUE, Len(classifiedAlerts), "Processed")

\* The profiles query throws after an alert was inserted.
C20_Witness ==
  /\ pc = "done"
  /\ pushEnv = pushEnvironment("throws", "ok")
  /\ Len(insertedAlerts) = 1
  /\ response.success
  /\ response.processed = 1

\* Every invocation throws for an alert in Haifa, which has a relevant user.
C20_WitnessInvoke ==
  /\ pc = "done"
  /\ pushEnv = pushEnvironment("ok", "throws")
  /\ Len(insertedAlerts) = 2
  /\ insertedAlerts[1].location = jsString(haifa)
  /\ notified = {}
  /\ response.processed = 2

(***************************************************************************)
(* Calls of sendPushNotifications                                          *)
(***************************************************************************)

\* user.location || ""
locationOrEmpty(user) ==
  IF falsy(user.location) THEN <<>> ELSE user.location.value

\* index.ts:431-433: users.filter(user => isLocationRelevant(alert.location,
\* user.location || "")), in the order of the query result.
relevantUsers(alert, users) ==
  SelectSeq(users,
    LAMBDA user : relevantTo(alert, [id |-> user.id,
                                    location |-> locationOrEmpty(user)]))

RECURSIVE invocationsFor(_, _)
\* The two loops of index.ts:430-451: for each alert, for each relevant user,
\* one invocation.
invocationsFor(alerts, users) ==
  IF alerts = <<>> THEN <<>>
  ELSE LET relevantOnes == relevantUsers(Head(alerts), users)
       IN  [i \in 1..Len(relevantOnes) |->
              [alert |-> Head(alerts).link, user |-> relevantOnes[i].id]]
           \o invocationsFor(Tail(alerts), users)

\* Invocations that end with the first one that throws.
invocationsMade_untilThrow(planned, failing) ==
  LET thrown == {i \in 1..Len(planned) : planned[i].user \in failing}
  IN  IF thrown = {} THEN planned
      ELSE SubSeq(planned, 1, CHOOSE i \in thrown : \A j \in thrown : i <= j)

\* index.ts:438-450: each invocation stands in its own try/catch, so one that
\* throws is logged and the loops go on.
invocationsMade(planned, failing) == planned

\* The rows the profiles query returns: users with an FCM token, with a stored
\* location, with null and with "".
ProfileRows ==
  << [id |-> "u1", location |-> jsString(haifa)],
     [id |-> "u2", location |-> jsString(telAviv)],
     [id |-> "u3", location |-> jsNull],
     [id |-> "u4", location |-> jsString(<<>>)],
     [id |-> "u5", location |-> jsString(haifa)] >>

\* sendPushNotifications, index.ts:414-456 and rss-fetcher.ts:429-471: the
\* invocations it makes.
pushInvocations(alerts, world) ==
  IF world.users # "ok" THEN <<>>
  ELSE invocationsMade(invocationsFor(alerts, ProfileRows), world.failing)

MaxAlerts == 2

alertAt(link, location) ==
  makeAlert(titleRocketsHaifa, descNoDetails, location,
            "2025-06-01T10:00:00.000Z", link, TRUE)

\* Alerts in Haifa, in Tel Aviv, country-wide, with the sentinel and with a
\* null location.
PushAlertPool ==
  { alertAt("A1", jsString(haifa)),
    alertAt("A2", jsString(telAvivYafo)),
    alertAt("A3", jsString(allCountry)),
    alertAt("A4", jsString(unknownLocation)),
    alertAt("A5", jsNull) }

PushWorlds ==
  { [users |-> "ok", failing |-> f] : f \in {{}, {"u1"}, {"u2"}, {"u1", "u2", "u5"}} }
  \cup { [users |-> u, failing |-> {}] : u \in {"error", "empty", "throws"} }

InitPush ==
  /\ pushAlerts \in UNION { [1..n -> PushAlertPool] : n \in 1..MaxAlerts }
  /\ pushWorld \in PushWorlds
  /\ pushCopy = "none"
  /\ invocations = <<>>
  /\ DedupIdle
  /\ LocIdle
  /\ NormIdle
  /\ SimIdle
  /\ ClassIdle
  /\ HandlerIdle
  /\ ClientIdle
  /\ HookIdle

\* A call of sendPushNotifications of index.ts.
CallSendPushNotifications_index ==
  /\ pushCopy = "none"
  /\ pushCopy' = "index"
  /\ invocations' = pushInvocations(pushAlerts, pushWorld)
  /\ UNCHANGED <<pushAlerts, pushWorld, otherVars, handlerVars, clientVars, hookVars>>

\* A call of sendPushNotifications of rss-fetcher.ts:429, the same statements.
CallSendPushNotifications ==
  /\ pushCopy = "none"
  /\ pushCopy' = "module"
  /\ invocations' = pushInvocations(pushAlerts, pushWorld)
  /\ UNCHANGED <<pushAlerts, pushWorld, otherVars, handlerVars, clientVars, hookVars>>

NextPush ==
  \/ CallSendPushNotifications_index
  \/ CallSendPushNotifications

SpecPush == InitPush /\ [][NextPush]_vars

\* C21: when the profiles query returned the users, an invocation is made for
\* an (alert, user) pair if and only if isLocationRelevant(alert.location,
\* user.location or "") holds; a user without a stored location gets none; and
\* an invocation that throws keeps no other pair from being invoked.
C21_InvocationIffRelevant ==
  (pushCopy # "none" /\ pushWorld.users = "ok") =>
    /\ \A a \in 1..Len(pushAlerts), u \in 1..Len(ProfileRows) :
         (\E i \in 1..Len(invocations) :
             /\ invocations[i].alert = pushAlerts[a].link
             /\ invocations[i].user = ProfileRows[u].id)
         <=> /\ pushAlerts[a].location.kind = "string"
             /\ isLocationRelevant(pushAlerts[a].location.value,
                                   locationOrEmpty(ProfileRows[u]))
    /\ \A i \in 1..Len(invocations) : invocations[i].user \notin {"u3", "u4"}

\* The invocation for u1 throws; u5, in the same city, and the second alert
\* are still served.
C21_Witness ==
  /\ pushCopy = "index"
  /\ pushWorld = [users |-> "ok", failing |-> {"u1"}]
  /\ Len(pushAlerts) = 2
  /\ pushAlerts[1].link = "A1"
  /\ pushAlerts[2].link = "A3"
  /\ invocations =
       << [alert |-> "A1", user |-> "u1"], [alert |-> "A1", user |-> "u5"],
          [alert |-> "A3", user |-> "u1"], [alert |-> "A3", user |-> "u2"],
          [alert |-> "A3", user |-> "u5"] >>


(***************************************************************************)
(* Causes of a drop and repeated filtering (src/unnamed/part_000:53-121)   *)
(***************************************************************************)

\* The loop's state after the first k items of the batch.
stateAfter(k) == loop_part000(items, k, existingLinks, existingTitles)

\* The k-th item of the batch was pushed onto processedItems.
returnedAt(k) ==
  Len(stateAfter(k).processedItems) = Len(stateAfter(k - 1).processedItems) + 1

\* Cause (a), (b) or (d) of a drop, given by the earlier returned item j.
causedByReturned(k, j) ==
  \/ items[k].link = items[j].link
  \/ normalize_part000(items[k].title) = normalize_part000(items[j].title)
  \/ exceeds(titleSimilarity(items[k], items[j]), 85, 100)
  \/ /\ exceeds(titleSimilarity(items[k], items[j]), 6, 10)
     /\ exceeds(contentSimilarity(items[k], items[j]), 6, 10)

\* Cause (a) or (c) of a drop, given by the stored links and titles.
causedByStored(k) ==
  \/ items[k].link \in existingLinks
  \/ \E t \in existingTitles :
       exceeds(similarityToStored(items[k], t), 85, 100)

\* The batch without its k-th item.
without(k) == SubSeq(items, 1, k - 1) \o SubSeq(items, k + 1, Len(items))

\* C22: every item part_000 drops has a cause: its link is stored or is an
\* earlier returned item's link, its normalized title is an earlier returned
\* item's, it is more than 0.85 title-similar to a stored title, or an earlier
\* returned item is more than 0.85 title-similar to it, or more than 0.6
\* title-similar and more than 0.6 content-similar.  A dropped item causes no
\* later drop: the batch without it gives the same result.
C22_EveryDropHasCause ==
  rev = "part_000" =>
    \A k \in 1..Len(items) :
      ~returnedAt(k) =>
        /\ \/ causedByStored(k)
           \/ \E j \in 1..(k - 1) : returnedAt(j) /\ causedByReturned(k, j)
        /\ filterDuplicates_part000(without(k), existingLinks, existingTitles)
             = result

\* An item dropped for its stored link is followed by an item of the same
\* title under a new link, which is returned.
C22_Witness ==
  /\ rev = "part_000"
  /\ existingLinks = {"L1"}
  /\ existingTitles = {}
  /\ items = <<item("L1", titleRocket, descShort),
               item("L2", titleRocket, descLong)>>
  /\ ~returnedAt(1)
  /\ returnedAt(2)
  /\ result = <<items[2]>>

\* C27: filtering the list part_000 returned again, with the same stored
\* links and titles, returns that list.
C27_FilterIdempotent ==
  rev = "part_000" =>
    filterDuplicates_part000(result, existingLinks, existingTitles) = result

\* A batch of three that lost an item, and whose result of two survives a
\* second filtering.
C27_Witness ==
  /\ rev = "part_000"
  /\ Len(items) = 3
  /\ Len(result) = 2
  /\ filterDuplicates_part000(result, existingLinks, existingTitles) = result


(***************************************************************************)
(* Claims about what the serve handler inserts and when it pushes          *)
(***************************************************************************)

\* What classifyAlertWithAI resolved to for an item of this run.
classificationOf(it) ==
  IF handler = "index" THEN classifyAlertWithAI_index(it, classifyEnv).value
  ELSE classifyAlertWithAI(it, classifyEnv).value

\* The insert was reached and returned without error.
insertSucceeded ==
  \/ pc \in {"push", "respond"}
  \/ pc = "done" /\ response.message \in {"push failed", "Processed"}

\* Every new item classified as a security event is in classifiedAlerts and,
\* once the insert succeeded, among the inserted rows; no item classified as
\* not a security event is inserted.
securityEventsKept ==
  pastClassification =>
    \A i \in 1..Len(newItems) :
      LET alert == classificationOf(newItems[i])
      IN  /\ alert.is_security_event => alert \in toSet(classifiedAlerts)
          /\ (alert.is_security_event /\ insertSucceeded)
               => alert \in toSet(insertedAlerts)
          /\ ~alert.is_security_event => alert \notin toSet(insertedAlerts)

\* C23: in the refactored handler of part_001, and in the monolithic handler
\* of index.ts, every deduplicated item that classifyAlertWithAI classifies as
\* a security event is added to classifiedAlerts and inserted, and no item
\* classified as not a security event is inserted.
C23_SecurityEventsInserted ==
  handler \in {"index", "part_001"} => securityEventsKept

\* C23, for the monolithic handler of index.ts alone.
C23_MonolithInsertsSecurityEvents ==
  handler = "index" => securityEventsKept

\* The monolithic handler inserted the alert of an item the AI called a
\* security event.
C23_WitnessMonolith ==
  /\ handler = "index"
  /\ pc = "done"
  /\ Len(newItems) = 1
  /\ classificationOf(newItems[1]).is_security_event
  /\ insertedAlerts = <<classificationOf(newItems[1])>>

\* A run that ended before the insert returned without error.
endedEarly ==
  /\ pc = "done"
  /\ response.message \in {"insert failed", "No new alerts to process",
                            "No security alerts found"}

\* C24: sendPushNotifications is called only after the insert of the
\* classified alerts returned without error; a run in which the insert
\* returns an error, deduplication leaves no new item, or no item is
\* classified as a security event sends no push notification.
C24_PushOnlyAfterInsert ==
  /\ pushEnv # noPush =>
       /\ Len(classifiedAlerts) > 0
       /\ insertedAlerts = classifiedAlerts
       /\ insertSucceeded
  /\ pc = "push" => insertedAlerts = classifiedAlerts
  /\ endedEarly => pushEnv = noPush /\ notified = {}

\* The insert of a classified alert failed and the run ended with no push.
C24_Witness ==
  /\ pc = "done"
  /\ response = makeResponse(500, FALSE, 0, "insert failed")
  /\ Len(classifiedAlerts) = 1
  /\ insertedAlerts = <<>>
  /\ pushEnv = noPush

\* A push was sent after the insert of the classified alert.
C24_WitnessPushed ==
  /\ pc = "done"
  /\ Len(insertedAlerts) = 1
  /\ notified # {}


(***************************************************************************)
(* Claims about the copies of the matcher and about the padded sentinel    *)
(***************************************************************************)

\* C28: the copies of isLocationRelevant in use-central-alerts.tsx and in
\* index.ts return, for every pair of inputs, what isLocationRelevant of
\* location-utils.ts returns.
C28_CopiesAgreeWithServer ==
  impl # "none" => relevant = isLocationRelevant(alertLocation, userLocation)

\* C28, for the copy in index.ts alone.
C28_IndexCopyAgreesWithServer ==
  impl = "index" => relevant = isLocationRelevant(alertLocation, userLocation)

\* C28, for the copy in use-central-alerts.tsx on inputs without a capital
\* sigma.
C28_ClientAgreesWithoutSigma ==
  (/\ impl = "client"
   /\ 931 \notin toSet(alertLocation)
   /\ 931 \notin toSet(userLocation))
    => relevant = isLocationRelevant(alertLocation, userLocation)

\* The client copy finds no match where location-utils.ts finds a direct one.
C28_WitnessDisagreement ==
  /\ impl = "client"
  /\ alertLocation = locGreekCapitals
  /\ userLocation = locGreekSmall
  /\ relevant = FALSE
  /\ isLocationRelevant(alertLocation, userLocation)
  /\ normalizeLocation(alertLocation) = locGreekSmall
  /\ normalizeLocation_client(alertLocation) = <<945, 962, 32, 945>>

\* C29: isLocationRelevant is false for every alert location that normalizes
\* to the sentinel, whatever the user location.
C29_NormalizedSentinelNeverRelevant ==
  (impl # "none" /\ normalizedAlertLocation = unknownLocation)
    => relevant = FALSE

\* What holds instead: an alert location that normalizes to the sentinel is
\* relevant only when it is not the sentinel itself, and the user location
\* normalizes to the sentinel or to a fragment of it longer than 3 characters.
C29_PaddedSentinelMatchesItsFragments ==
  (impl # "none" /\ normalizedAlertLocation = unknownLocation /\ relevant)
    => /\ alertLocation # unknownLocation
       /\ includes(unknownLocation, normalizedUserLocation)
       /\ Len(normalizedUserLocation) > 3

\* The padded sentinel is relevant to a user whose location is the sentinel.
C29_WitnessPadded ==
  /\ impl = "server"
  /\ alertLocation = locUnknownPadded
  /\ userLocation = unknownLocation
  /\ relevant = TRUE


(***************************************************************************)
(* Client-side deduplication (hooks/use-central-alerts.tsx:77-125)         *)
(***************************************************************************)

\* alert.title.toLowerCase().trim().replace(/[^\w\s]/g, ''): without the u
\* flag \w is [A-Za-z0-9_], so Hebrew letters are removed with the punctuation.
normalizeTitle_client(title) ==
  SelectSeq(trim(toLowerCase(title)),
            LAMBDA c : isWordChar(c) \/ isWhitespace(c))

\* The body of the loop over seenTitles: both titles have words longer than 2
\* characters and commonWords.length / Math.max(...) > 0.85.
similarTitle_client(normalizedTitle, seenTitle) ==
  LET words1 == longerThan(splitWhitespace(normalizedTitle), 2)
      words2 == longerThan(splitWhitespace(seenTitle), 2)
  IN  /\ Len(words1) > 0
      /\ Len(words2) > 0
      /\ exceeds(ratio(commonCount(words1, words2),
                       max(Len(words1), Len(words2))), 85, 100)

\* One pass of the for loop over alerts.
step_client(st, alert) ==
  LET normalizedTitle == normalizeTitle_client(alert.title)
  IN  IF alert.link \in st.seenLinks THEN st
      ELSE IF normalizedTitle \in st.seenTitles THEN st
      ELSE IF \E seenTitle \in st.seenTitles :
                similarTitle_client(normalizedTitle, seenTitle) THEN st
      ELSE [uniqueAlerts |-> Append(st.uniqueAlerts, alert),
            seenTitles |-> st.seenTitles \cup {normalizedTitle},
            seenLinks |-> st.seenLinks \cup {alert.link}]

RECURSIVE loop_client(_, _)
loop_client(batch, n) ==
  IF n = 0 THEN [uniqueAlerts |-> <<>>, seenTitles |-> {}, seenLinks |-> {}]
  ELSE step_client(loop_client(batch, n - 1), batch[n])

\* deduplicateAlerts, use-central-alerts.tsx:77-125.
deduplicateAlerts(batch) == loop_client(batch, Len(batch)).uniqueAlerts

MaxClientAlerts == 3

\* The fields of an Alert that deduplicateAlerts reads.
clientAlert(link, title) == [link |-> link, title |-> title]

\* Alerts as the alerts table returns them: Latin titles equal up to case and
\* punctuation, reordered and with one more word, one link used twice, and
\* Hebrew titles of two and of four words.
ClientAlertPool ==
  { clientAlert("L1", titleRocket),
    clientAlert("L2", titleRocketBang),
    clientAlert("L3", titleRocketSwapped),
    clientAlert("L4", titleRocketPort),
    clientAlert("L1", titleSirens),
    clientAlert("L5", titleBlastHolon),
    clientAlert("L6", titleRocketsHaifa) }

InitClient ==
  /\ clientBatch \in UNION { [1..n -> ClientAlertPool] : n \in 0..MaxClientAlerts }
  /\ uniqueAlerts = <<>>
  /\ dedupCalled = FALSE
  /\ DedupIdle
  /\ LocIdle
  /\ NormIdle
  /\ SimIdle
  /\ ClassIdle
  /\ HandlerIdle
  /\ PushIdle
  /\ HookIdle

\* A call of deduplicateAlerts.
CallDeduplicateAlerts ==
  /\ ~dedupCalled
  /\ dedupCalled' = TRUE
  /\ uniqueAlerts' = deduplicateAlerts(clientBatch)
  /\ UNCHANGED <<clientBatch, dedupVars, locVars, normVars, simVars, classVars, handlerVars, pushVars, hookVars>>

SpecClient == InitClient /\ [][CallDeduplicateAlerts]_vars

\* The k-th alert of the batch was pushed onto uniqueAlerts.
keptAt(k) ==
  Len(loop_client(clientBatch, k).uniqueAlerts)
    = Len(loop_client(clientBatch, k - 1).uniqueAlerts) + 1

\* The words of a title: lowercased, punctuation removed, Hebrew letters kept.
titleWords(title) == splitWhitespace(normalize_part000(title))

\* commonWords.length / Math.max(words1.length, words2.length) > 0.85 on the
\* words of the two titles that are longer than 2 characters.
wordOverlapExceeds(title1, title2) ==
  LET words1 == longerThan(titleWords(title1), 2)
      words2 == longerThan(titleWords(title2), 2)
  IN  /\ Len(words1) > 0
      /\ Len(words2) > 0
      /\ exceeds(ratio(commonCount(words1, words2),
                       max(Len(words1), Len(words2))), 85, 100)

\* C25: deduplicateAlerts drops an alert only when an earlier kept alert has
\* the same link, the same title up to case and punctuation, or a word
\* overlap above 0.85 with it; two alerts with different links and no word
\* in common are both kept.
C25_ClientDropsOnlyDuplicates ==
  dedupCalled =>
    /\ \A k \in 1..Len(clientBatch) :
         ~keptAt(k) =>
           \E j \in 1..(k - 1) :
             /\ keptAt(j)
             /\ \/ clientBatch[k].link = clientBatch[j].link
                \/ normalize_part000(clientBatch[k].title)
                     = normalize_part000(clientBatch[j].title)
                \/ wordOverlapExceeds(clientBatch[k].title, clientBatch[j].title)
    /\ ( /\ Len(clientBatch) = 2
         /\ clientBatch[1].link # clientBatch[2].link
         /\ toSet(titleWords(clientBatch[1].title))
              \cap toSet(titleWords(clientBatch[2].title)) = {} )
       => uniqueAlerts = clientBatch

\* What holds instead: a dropped alert shares its link with an earlier kept
\* alert, or what is left of its title after the non-ASCII letters are removed
\* equals or resembles what is left of the earlier title.
C25_ClientDropsByAsciiRemainder ==
  dedupCalled =>
    \A k \in 1..Len(clientBatch) :
      ~keptAt(k) =>
        \E j \in 1..(k - 1) :
          /\ keptAt(j)
          /\ \/ clientBatch[k].link = clientBatch[j].link
             \/ normalizeTitle_client(clientBatch[k].title)
                  = normalizeTitle_client(clientBatch[j].title)
             \/ similarTitle_client(
                  normalizeTitle_client(clientBatch[k].title),
                  normalizeTitle_client(clientBatch[j].title))

\* Two Hebrew titles of two words each, under different links: the second
\* alert is dropped.
C25_WitnessHebrew ==
  /\ dedupCalled
  /\ clientBatch = <<clientAlert("L1", titleSirens),
                     clientAlert("L5", titleBlastHolon)>>
  /\ normalizeTitle_client(titleSirens) = <<32>>
  /\ normalizeTitle_client(titleBlastHolon) = <<32>>
  /\ uniqueAlerts = <<clientBatch[1]>>


(***************************************************************************)
(* The useCentralAlerts hook (hooks/use-central-alerts.tsx:127-221)        *)
(***************************************************************************)

MaxRefreshes == 3

\* The rows the alerts query returns: an alert in Haifa and one in Holon.
DbAlerts ==
  << [link |-> "L1", title |-> titleRocketsHaifa, location |-> haifa],
     [link |-> "L5", title |-> titleBlastHolon, location |-> holon] >>

\* use-central-alerts.tsx:159-173: the rows converted, isRelevant computed for
\* the userLocation argument, and deduplicated.
deduplicatedAlerts(userLocation_) ==
  deduplicateAlerts(
    [i \in 1..Len(DbAlerts) |->
       [link |-> DbAlerts[i].link,
        title |-> DbAlerts[i].title,
        location |-> DbAlerts[i].location,
        isRelevant |->
          isLocationRelevant_client(DbAlerts[i].location, userLocation_)]])

\* A refreshAlerts call waiting for its query.
inFlight(i) == calls[i].status = "awaiting"

\* use-central-alerts.tsx:133-139: setLoading(true), setError(null), and the
\* query is sent.
startRefresh(userLocation_) ==
  /\ Len(calls) < MaxRefreshes
  /\ loading' = TRUE
  /\ hookError' = "null"
  /\ calls' = Append(calls, [userLocation |-> userLocation_,
                              status |-> "awaiting"])
  /\ overlapped' = (overlapped \/ \E i \in 1..Len(calls) : inFlight(i))
  /\ hookAlerts' = hookAlerts

\* use-central-alerts.tsx:128-130, 194-199: the first render and the effect on
\* [location], which calls refreshAlerts(location).
Mount ==
  /\ ~mounted
  /\ mounted' = TRUE
  /\ startRefresh(hookLocation)
  /\ UNCHANGED <<hookLocation, snoozeActive, dedupVars, locVars, normVars,
                 simVars, classVars, handlerVars, pushVars, clientVars>>

\* use-central-alerts.tsx:194-199: the location prop changes and the effect
\* runs again.
LocationChanges ==
  /\ mounted
  /\ \E newLocation \in {haifa, telAviv} \ {hookLocation} :
       /\ hookLocation' = newLocation
       /\ startRefresh(newLocation)
  /\ UNCHANGED <<snoozeActive, mounted, dedupVars, locVars, normVars,
                 simVars, classVars, handlerVars, pushVars, clientVars>>

\* use-central-alerts.tsx:202-212: the five-minute interval fires; it
\* refreshes unless snoozeActive.
TimerFires ==
  /\ mounted
  /\ ~snoozeActive
  /\ startRefresh(hookLocation)
  /\ UNCHANGED <<hookLocation, snoozeActive, mounted, dedupVars, locVars,
                 normVars, simVars, classVars, handlerVars, pushVars, clientVars>>

\* use-central-alerts.tsx:143-190: the query of call i resolves with rows, with
\* fetchError, or rejects; the finally block sets loading to false.
QueryResolves ==
  /\ \E i \in 1..Len(calls), outcome_ \in {"ok", "fetchError", "threw"} :
       /\ inFlight(i)
       /\ calls' = [calls EXCEPT ![i].status = outcome_]
       /\ hookAlerts' = IF outcome_ = "ok"
                        THEN deduplicatedAlerts(calls[i].userLocation)
                        ELSE hookAlerts
       /\ hookError' = IF outcome_ = "ok" THEN hookError ELSE "message"
       /\ loading' = FALSE
  /\ UNCHANGED <<hookLocation, snoozeActive, mounted, overlapped, dedupVars,
                 locVars, normVars, simVars, classVars, handlerVars, pushVars, clientVars>>

InitHook ==
  /\ hookLocation \in {haifa, telAviv}
  /\ snoozeActive \in BOOLEAN
  /\ mounted = FALSE
  /\ hookAlerts = <<>>
  /\ loading = TRUE
  /\ hookError = "null"
  /\ calls = <<>>
  /\ overlapped = FALSE
  /\ DedupIdle
  /\ LocIdle
  /\ NormIdle
  /\ SimIdle
  /\ ClassIdle
  /\ HandlerIdle
  /\ PushIdle
  /\ ClientIdle

NextHook ==
  \/ Mount
  \/ LocationChanges
  \/ TimerFires
  \/ QueryResolves

SpecHook == InitHook /\ [][NextHook]_vars

\* Some refresh is waiting for its query.
someInFlight == \E i \in 1..Len(calls) : inFlight(i)

\* Every refresh started has completed, and each got its rows.
allCompletedOk ==
  /\ Len(calls) > 0
  /\ \A i \in 1..Len(calls) : calls[i].status = "ok"

\* The alerts state is the result of the refresh started last, which ran for
\* the current location; loading is true while a refresh is in flight.
latestWinsAndLoadingHolds ==
  /\ allCompletedOk =>
       /\ calls[Len(calls)].userLocation = hookLocation
       /\ hookAlerts = deduplicatedAlerts(hookLocation)
  /\ someInFlight => loading = TRUE

\* C26: with overlapping refreshes, once every call in flight has completed
\* the alerts state holds the result of the refresh started last (isRelevant
\* computed for the current location), and loading is not false while a
\* refresh is in flight.
C26_LatestRefreshWins == latestWinsAndLoadingHolds

\* C26, for runs in which no refresh started while another was in flight.
C26_HoldsWithoutOverlap == ~overlapped => latestWinsAndLoadingHolds

\* The refresh for the earlier location completed last: the alerts state
\* holds isRelevant for a location that is no longer the current one.
C26_WitnessStale ==
  /\ allCompletedOk
  /\ Len(calls) = 2
  /\ calls[1].userLocation = haifa
  /\ hookLocation = telAviv
  /\ hookAlerts = deduplicatedAlerts(haifa)
  /\ hookAlerts # deduplicatedAlerts(telAviv)

\* One of two overlapping refreshes completed and set loading to false.
C26_WitnessLoading ==
  /\ someInFlight
  /\ loading = FALSE


(***************************************************************************)
(* Health-check invocations (components/SystemHealthButton.tsx:12-65)      *)
(***************************************************************************)

\* The response body is a status report: it has the details field that
\* handleHealthCheck reads beside status (SystemHealthButton.tsx:34-35).  The
\* handlers answer with {success, message, processed} or {success, error};
\* the status field of the response record is the HTTP status.
isStatusReport(r) == "details" \in DOMAIN r

\* C30: an invocation with the body {health_check: true} is answered with a
\* status report, inserts no alert and sends no push notification.
C30_HealthCheckHasNoEffect ==
  requestBody = "health_check" =>
    /\ insertedAlerts = <<>>
    /\ pushEnv = noPush
    /\ notified = {}
    /\ pc = "done" => isStatusReport(response)

\* A health-check invocation inserted an alert, notified a user and was
\* answered with the processing summary.
C30_WitnessInserted ==
  /\ requestBody = "health_check"
  /\ handler = "index"
  /\ pc = "done"
  /\ Len(insertedAlerts) = 1
  /\ notified # {}
  /\ response = makeResponse(200, TRUE, 1, "Processed")

====
